---------------------------- MODULE Spec2Model ----------------------------
(***************************************************************************)
(* A model of disnake-ext-components: the component manager hierarchy      *)
(* (impl/manager.py), its custom-id codec and dispatch pipeline, and the   *)
(* builtin parsers (impl/parser/builtins.py).                              *)
(*                                                                         *)
(* Conventions.                                                            *)
(*  - A Python str is a sequence of code points (Seq(Nat)): "|" is <<124>>,*)
(*    the count character for counter value k is the code point k.         *)
(*  - A manager name is the sequence of its dot-separated segments:        *)
(*    "a.b" is <<"a", "b">>, the root manager is <<"root">>.               *)
(*  - An Optional value is a set with at most one element: None is {},     *)
(*    a value x is {x}.                                                    *)
(*  - A dict is a function whose DOMAIN is the set of keys present.        *)
(*  - A component class is a record [name, mod, gen]: its __name__, its    *)
(*    __module__ and the module object (numbered per module name) whose    *)
(*    execution created the class object.                                  *)
(***************************************************************************)
EXTENDS Integers, Sequences, FiniteSets, TLC

\* ------------------------------------------------------------------ bounds

\* Module unloads and (re-)imports in one run.
MaxModOps == 2

\* Calls of register_component and deregister_component in one run.
MaxRegOps == 2

\* Calls of config and make_custom_id in one run of the codec.
MaxCodecOps == 3

\* ------------------------------------------------------------ Python values

None == {}

Some(x) == {x}

The(opt) == CHOOSE x \in opt : TRUE

EmptyDict == [k \in {} |-> {}]

\* dict.pop(key) for a key that is present.
DictPop(d, key) == [k \in (DOMAIN d) \ {key} |-> d[k]]

\* d[key] = value
DictSet(d, key, value) == [k \in (DOMAIN d) \cup {key} |-> IF k = key THEN value ELSE d[k]]

\* ---------------------------------------------------------------- universe

ROOT == <<"root">>

Managers == {ROOT, <<"a">>, <<"a", "b">>, <<"c">>}

ModNames == {"m1", "m2"}

\* The class name "C": classes of this name are defined in both modules.
ClassNames == {<<67>>}

\* The explicit identifier "X" a caller may pass as identifier=...
ExplicitIds == {<<88>>}

\* A module name has its first module object, and one more per unload
\* followed by an import.
MaxGen == 1 + (MaxModOps \div 2)

Classes == [name : ClassNames, mod : ModNames, gen : 1..MaxGen]

\* The identifier=... argument of register_component: omitted, or "X".
IdentifierArgs == {None} \cup {Some(x) : x \in ExplicitIds}

VARIABLES
    \* sys.modules: module name -> Optional id of the module object.
    sys_modules,
    \* Number of module objects created so far per module name.
    mod_gen,
    \* ComponentManager._components, per manager: identifier -> class.
    _components,
    \* ComponentManager._module_data, per manager: identifier -> _ModuleData.
    _module_data,
    \* ComponentManager._identifiers, per manager: class name -> identifier.
    _identifiers,
    \* RichComponent.manager, per class object: Optional manager.
    cls_manager,
    \* The last registry operation, its arguments and how it ended.
    last_op,
    \* Number of register_component / deregister_component calls made.
    reg_ops,
    \* Number of module unloads and imports made.
    mod_ops,
    \* ComponentManager._count, per manager: Optional bool.
    _count,
    \* ComponentManager._sep, per manager: Optional str.
    _sep,
    \* ComponentManager._counter, per manager.
    _counter,
    \* The last make_custom_id call: its manager, component and result.
    made,
    \* The custom id returned by the call before it, when that call was for
    \* an equal component on the same manager with no config() in between.
    prev_id,
    \* Number of config and make_custom_id calls made in a codec run.
    codec_ops,
    \* ComponentManager.wrap_callback, per manager: "default" is
    \* default_callback_wrapper, "custom" a function given to
    \* as_callback_wrapper.
    wrap_callback,
    \* ComponentManager.handle_exception, per manager: "default" is
    \* default_exception_handler, "custom" a function given to
    \* as_exception_handler.
    handle_exception,
    \* Number of as_callback_wrapper / as_exception_handler calls made.
    custom_ops,
    \* The invoke_component call in flight: where it is (pc), the component
    \* class parsed, the list `managers`, how many callback wrappers are on
    \* the exit stack, the exception in flight and how the call ended.
    inv,
    \* What the wrappers, the callback, the handlers and the logger did
    \* during the call, in order.
    log,
    \* _COMPONENT_CTX: the component being invoked, None when unset.
    component_ctx,
    \* One IntParser run: the parser, the value, dumps' and loads' results.
    int_run,
    \* One run of a UnionParser, TupleParser or CollectionParser: the parser,
    \* the value, and what dumps and loads returned and which inner parsers
    \* they called.
    parser_run,
    \* _PARSERS: the parser class registered for a type.
    _PARSERS,
    \* _REV_PARSERS: the types each parser class is registered for, in the
    \* order the classes were first registered (dict order).
    _REV_PARSERS,
    \* The registration calls made, with their arguments and outcome.
    parser_calls,
    \* bot.extra_events[_COMPONENT_EVENT] of each bot: the managers whose
    \* invoke_component is a listener, in the order they were added.
    extra_events,
    \* The _bot slot of each manager that has one assigned; a manager is
    \* not in the domain while its slot has never been assigned.
    _bot,
    \* The last add_to_bot / remove_from_bot call or read of the bot
    \* property, with its outcome.
    last_bot_op,
    \* Number of such calls made.
    bot_ops,
    \* The make_custom_id calls running as tasks: where each is, the manager
    \* it was called on, and the identifier it has built.
    tasks,
    \* The listeners of the bot that the interaction event being dispatched
    \* has yet to be delivered to.
    pending,
    \* The custom id of the interaction being dispatched, None when none is.
    interaction,
    \* How many times the component callback ran for that interaction.
    callback_runs,
    \* One call of a callback wrapped by wrap_interaction_for: the arguments
    \* given and what the callback was called with.
    wrap_run,
    \* One get_parser call for a Union annotation: the annotation, the parser
    \* returned, and what its loads and dumps then returned.
    get_run,
    \* The last parse_message_components call: where invoke_component stood
    \* and what _COMPONENT_CTX held when it was made, its arguments and what
    \* it returned.
    parsed

regvars == <<sys_modules, mod_gen, _components, _module_data, _identifiers, cls_manager, last_op, reg_ops, mod_ops>>

cfgvars == <<_count, _sep>>

codecvars == <<_counter, made, prev_id, codec_ops>>

hookvars == <<wrap_callback, handle_exception, custom_ops>>

invvars == <<inv, log, component_ctx>>

resolvevars == <<_PARSERS, _REV_PARSERS, parser_calls>>

parservars == <<int_run, parser_run, resolvevars>>

botvars == <<extra_events, _bot, last_bot_op, bot_ops>>

taskvars == <<tasks>>

eventvars == <<pending, interaction, callback_runs>>

wrapvars == <<wrap_run>>

getvars == <<get_run>>

msgvars == <<parsed>>

\* What the registry operations and the module system leave alone.
nonregvars == <<cfgvars, codecvars, hookvars, invvars, parservars, botvars, taskvars, eventvars, wrapvars, getvars, msgvars>>

\* What config and make_custom_id leave alone besides the registry.
noncodecvars == <<hookvars, invvars, parservars, botvars, taskvars, eventvars, wrapvars, getvars, msgvars>>

vars == <<regvars, cfgvars, codecvars, hookvars, invvars, parservars, botvars, taskvars, eventvars, wrapvars, getvars, msgvars>>

\* ------------------------------------------------------- manager hierarchy

\* ComponentManager.parent: None for the root, the root for an undotted
\* name, the manager named by everything before the last dot otherwise.
parent(m) ==
    IF Len(m) = 1
    THEN (IF m = ROOT THEN None ELSE Some(ROOT))
    ELSE Some(SubSeq(m, 1, Len(m) - 1))

RECURSIVE _recurse_parents(_)
\* The manager itself, then its parent, ... up to the root.
_recurse_parents(m) ==
    IF parent(m) = None THEN <<m>> ELSE <<m>> \o _recurse_parents(The(parent(m)))

Range(s) == {s[i] : i \in 1..Len(s)}

\* ------------------------------------------------------------- _ModuleData

\* _ModuleData.from_object for a class whose module is in sys.modules.
from_object(c) == [name |-> c.mod, id |-> The(sys_modules[c.mod])]

ModuleDataIsReloadOfId(self, other) == self.name = other.name

is_reload_of(self, other) == self.name = other.name /\ self.id # other.id

is_active(self) ==
    IF sys_modules[self.name] = None
    THEN FALSE
    ELSE self.id = The(sys_modules[self.name])

\* -------------------------------------------------------------- the module
\* system (the environment of the registry)

\* A class object exists once the module object that defines it was created.
Exists(c) == c.gen <= mod_gen[c.mod]

NoOp == [op |-> "none", mgr |-> ROOT, cls |-> None, ident |-> None, outcome |-> "ok"]

\* import of a module that is not in sys.modules: a new module object.
ImportModule(mod) ==
    /\ sys_modules[mod] = None
    /\ mod_ops < MaxModOps
    /\ mod_ops' = mod_ops + 1
    /\ mod_gen' = [mod_gen EXCEPT ![mod] = @ + 1]
    /\ sys_modules' = [sys_modules EXCEPT ![mod] = Some(mod_gen[mod] + 1)]
    /\ last_op' = [NoOp EXCEPT !.op = "import"]
    /\ UNCHANGED <<_components, _module_data, _identifiers, cls_manager, reg_ops, nonregvars>>

\* The module is removed from sys.modules (an extension is unloaded).
UnloadModule(mod) ==
    /\ sys_modules[mod] # None
    /\ mod_ops < MaxModOps
    /\ mod_ops' = mod_ops + 1
    /\ sys_modules' = [sys_modules EXCEPT ![mod] = None]
    /\ last_op' = [NoOp EXCEPT !.op = "unload"]
    /\ UNCHANGED <<mod_gen, _components, _module_data, _identifiers, cls_manager, reg_ops, nonregvars>>

\* ------------------------------------------------------------ registration

make_identifier(c) == c.name

\* identifier or self.make_identifier(component_type)
resolved_identifier(c, identifier) ==
    IF identifier = None \/ The(identifier) = <<>>
    THEN make_identifier(c)
    ELSE The(identifier)

\* The managers register_component writes to.
RegisterTargetsSelfOnly(m) == {m}

RegisterTargets(m) == Range(_recurse_parents(m))

\* The duplicate check of register_component: TRUE when it raises.
IsDuplicate(rid, module_data) ==
    /\ rid \in DOMAIN _components[ROOT]
    /\ ~ is_reload_of(module_data, _module_data[ROOT][rid])

\* The four registration tables as one record.
Tables(components, identifiers, module_data, manager) ==
    [components |-> components, identifiers |-> identifiers,
     module_data |-> module_data, manager |-> manager]

\* The writes of register_component: component_type.manager = self, then
\* the three tables of the manager and of each of its parents.
RegisterInto(t, m, c, rid, module_data) ==
    [components |-> [n \in Managers |->
        IF n \in RegisterTargets(m) THEN DictSet(t.components[n], rid, c) ELSE t.components[n]],
     identifiers |-> [n \in Managers |->
        IF n \in RegisterTargets(m) THEN DictSet(t.identifiers[n], c.name, rid) ELSE t.identifiers[n]],
     module_data |-> [n \in Managers |->
        IF n \in RegisterTargets(m) THEN DictSet(t.module_data[n], rid, module_data) ELSE t.module_data[n]],
     manager |-> [t.manager EXCEPT ![c] = Some(m)]]

register_component(m, c, identifier) ==
    LET rid == resolved_identifier(c, identifier)
        op  == [op |-> "register", mgr |-> m, cls |-> Some(c), ident |-> Some(rid), outcome |-> "ok"]
    IN  /\ Exists(c)
        /\ reg_ops < MaxRegOps
        /\ reg_ops' = reg_ops + 1
        /\ IF sys_modules[c.mod] = None
           THEN \* sys.modules[obj.__module__] raises KeyError
                /\ last_op' = [op EXCEPT !.outcome = "KeyError"]
                /\ UNCHANGED <<_components, _module_data, _identifiers, cls_manager>>
           ELSE IF IsDuplicate(rid, from_object(c))
           THEN /\ last_op' = [op EXCEPT !.outcome = "RuntimeError"]
                /\ UNCHANGED <<_components, _module_data, _identifiers, cls_manager>>
           ELSE LET t == RegisterInto(Tables(_components, _identifiers, _module_data, cls_manager),
                                      m, c, rid, from_object(c))
                IN  /\ cls_manager' = t.manager
                    /\ _components' = t.components
                    /\ _identifiers' = t.identifiers
                    /\ _module_data' = t.module_data
                    /\ last_op' = op
        /\ UNCHANGED <<sys_modules, mod_gen, mod_ops, nonregvars>>

RECURSIVE PopChain(_, _, _, _)
\* The loop of deregister_component over the managers chain[i..]: each pops
\* the identifier from _components, then from _module_data; a missing key
\* raises KeyError and leaves the pops already made in place.
PopChain(tables, chain, i, identifier) ==
    IF i > Len(chain) THEN [tables EXCEPT !.outcome = "ok"]
    ELSE LET n == chain[i] IN
         IF identifier \notin DOMAIN tables.components[n]
         THEN [tables EXCEPT !.outcome = "KeyError"]
         ELSE LET t1 == [tables EXCEPT !.components[n] = DictPop(@, identifier)] IN
              IF identifier \notin DOMAIN t1.module_data[n]
              THEN [t1 EXCEPT !.outcome = "KeyError"]
              ELSE PopChain([t1 EXCEPT !.module_data[n] = DictPop(@, identifier)],
                            chain, i + 1, identifier)

\* The effect of deregister_component(component_type) called on manager m:
\* the tables afterwards and how the call ended.
Deregistered(m, c) ==
    LET identifier == make_identifier(c)
        tables == [components |-> _components, module_data |-> _module_data, outcome |-> "ok"]
    IN  IF identifier \notin DOMAIN _components[m]
        THEN [tables EXCEPT !.outcome = "KeyError"]
        ELSE LET component == _components[m][identifier] IN
             IF cls_manager[component] = None
             THEN [tables EXCEPT !.outcome = "TypeError"]
             ELSE PopChain(tables, _recurse_parents(The(cls_manager[component])), 1, identifier)

deregister_component(m, c) ==
    LET r == Deregistered(m, c) IN
    /\ Exists(c)
    /\ reg_ops < MaxRegOps
    /\ reg_ops' = reg_ops + 1
    /\ _components' = r.components
    /\ _module_data' = r.module_data
    /\ last_op' = [op |-> "deregister", mgr |-> m, cls |-> Some(c),
                   ident |-> Some(make_identifier(c)), outcome |-> r.outcome]
    /\ UNCHANGED <<sys_modules, mod_gen, mod_ops, _identifiers, cls_manager, nonregvars>>

\* ------------------------------------------------------------ strings

\* substring in string
Contains(str, sub) ==
    \E i \in 1..(Len(str) - Len(sub) + 1) : SubSeq(str, i, i + Len(sub) - 1) = sub

\* The index of the first occurrence of sub in str (sub is in str).
IndexOf(str, sub) ==
    CHOOSE i \in 1..(Len(str) - Len(sub) + 1) :
        /\ SubSeq(str, i, i + Len(sub) - 1) = sub
        /\ \A j \in 1..(i - 1) : SubSeq(str, j, j + Len(sub) - 1) # sub

RECURSIVE Split(_, _)
\* str.split(sep) for a non-empty sep: the list of the parts between the
\* occurrences of sep, scanning from the left.
Split(str, sep) ==
    IF ~ Contains(str, sep) THEN <<str>>
    ELSE LET i == IndexOf(str, sep) IN
         <<SubSeq(str, 1, i - 1)>> \o Split(SubSeq(str, i + Len(sep), Len(str)), sep)

RECURSIVE Join(_, _)
\* sep.join(parts)
Join(parts, sep) ==
    IF Len(parts) = 0 THEN <<>>
    ELSE IF Len(parts) = 1 THEN parts[1]
    ELSE parts[1] \o sep \o Join(Tail(parts), sep)

\* ----------------------------------------------------------- configuration

\* "|"
DEFAULT_SEP == <<124>>

DEFAULT_COUNT == TRUE

\* ":", the separator get_identifier falls back to.
FALLBACK_SEP == <<58>>

\* The separator "/" a caller may configure.
SepValues == {<<47>>}

\* omit.Omitted, and a given argument (None included).
Omitted == [omitted |-> TRUE, value |-> None]

Given(v) == [omitted |-> FALSE, value |-> v]

is_omitted(arg) == arg.omitted

CountArgs == {Omitted, Given(None), Given(Some(TRUE)), Given(Some(FALSE))}

SepArgs == {Omitted, Given(None)} \cup {Given(Some(x)) : x \in SepValues}

\* The mutant: the manager's own attribute or the default, no parents.
OwnAttrOrDefault(m, attribute, default) ==
    IF attribute[m] # None THEN The(attribute[m]) ELSE default

RECURSIVE FirstSet(_, _, _, _)
\* The loop of _recurse_parents_getattr over chain[i..].
FirstSet(chain, i, attribute, default) ==
    IF i > Len(chain) THEN default
    ELSE IF attribute[chain[i]] # None THEN The(attribute[chain[i]])
    ELSE FirstSet(chain, i + 1, attribute, default)

_recurse_parents_getattr(m, attribute, default) ==
    FirstSet(_recurse_parents(m), 1, attribute, default)

\* ComponentManager.count
count(m) == _recurse_parents_getattr(m, _count, DEFAULT_COUNT)

\* ComponentManager.sep
sep(m) == _recurse_parents_getattr(m, _sep, DEFAULT_SEP)

\* ComponentManager.config(count=..., sep=...)
config(m, count_arg, sep_arg) ==
    /\ _count' = IF is_omitted(count_arg) THEN _count
                 ELSE [_count EXCEPT ![m] = count_arg.value]
    /\ _sep' = IF is_omitted(sep_arg) THEN _sep
               ELSE [_sep EXCEPT ![m] = sep_arg.value]
    /\ prev_id' = None
    /\ made' = [made EXCEPT !.current = FALSE]
    /\ UNCHANGED <<regvars, _counter, noncodecvars>>

CfgInit ==
    /\ _count = [m \in Managers |-> None]
    /\ _sep = [m \in Managers |-> None]

CfgNext ==
    \E m \in Managers, count_arg \in CountArgs, sep_arg \in SepArgs :
        config(m, count_arg, sep_arg)

\* --------------------------------------------------------- custom-id codec

\* The last counter value; increment wraps from it to 0.
MaxCounter == 24

\* len(_COUNT_CHARS)
NumCountChars == 25

\* The mutant: every count gives the same character.
MinimiseCountFixed(k) == <<0>>

\* The one-character string whose code point is count (latin-1).
_minimise_count(k) == <<k>>

COUNT_CHARS == {_minimise_count(k) : k \in 0..(NumCountChars - 1)}

\* str.endswith(tuple of suffixes)
EndsWithAny(str, suffixes) ==
    \E sfx \in suffixes :
        /\ Len(str) >= Len(sfx)
        /\ SubSeq(str, Len(str) - Len(sfx) + 1, Len(str)) = sfx

\* ComponentManager.get_identifier
get_identifier(m, custom_id) ==
    LET s == IF Contains(custom_id, sep(m)) THEN sep(m) ELSE FALLBACK_SEP
        parts == Split(custom_id, s)
        name == Head(parts)
        params == Tail(parts)
    IN  IF count(m) /\ EndsWithAny(name, COUNT_CHARS)
        THEN [identifier |-> SubSeq(name, 1, Len(name) - 1), params |-> params]
        ELSE [identifier |-> name, params |-> params]

\* The first lines of parse_raw_component: the class the manager's registry
\* holds for the identifier of the custom id, None when it holds none.
Resolve(m, custom_id) ==
    LET identifier == get_identifier(m, custom_id).identifier IN
    IF identifier \in DOMAIN _components[m]
    THEN Some(_components[m][identifier])
    ELSE None

\* The mutant: the counter is not advanced.
NextCounterStuck(k) == k

\* ComponentManager.increment: the counter after the call.
NextCounter(k) == IF k + 1 > MaxCounter THEN 0 ELSE k + 1

\* What component.factory.dump_params may return for a component: the
\* dumped field values in field order: none, ["7"], ["a|b", ""].
DumpedParams == {<<>>, <<<<55>>>>, <<<<97, 124, 98>>, <<>>>>}

NoMade == [mgr |-> ROOT, cls |-> None, params |-> <<>>, id |-> <<>>,
           outcome |-> "none", current |-> FALSE]

\* ComponentManager.make_custom_id(component) for a component of class c
\* whose fields dump to params. No dumped value contains the manager's
\* separator.
make_custom_id(m, c, params) ==
    /\ codec_ops < MaxCodecOps
    /\ codec_ops' = codec_ops + 1
    /\ \A i \in 1..Len(params) : ~ Contains(params[i], sep(m))
    /\ IF c.name \notin DOMAIN _identifiers[m]
       THEN \* self._identifiers[type(component).__name__] raises KeyError
            /\ made' = [mgr |-> m, cls |-> Some(c), params |-> params, id |-> <<>>,
                        outcome |-> "KeyError", current |-> TRUE]
            /\ prev_id' = None
            /\ UNCHANGED _counter
       ELSE LET registered == _identifiers[m][c.name]
                identifier == IF count(m)
                              THEN registered \o _minimise_count(_counter[m])
                              ELSE registered
            IN  /\ _counter' = IF count(m)
                               THEN [_counter EXCEPT ![m] = NextCounter(@)]
                               ELSE _counter
                /\ made' = [mgr |-> m, cls |-> Some(c), params |-> params,
                            id |-> Join(<<identifier>> \o params, sep(m)),
                            outcome |-> "ok", current |-> TRUE]
                /\ prev_id' = IF /\ made.outcome = "ok" /\ made.current
                                 /\ made.mgr = m /\ made.cls = Some(c) /\ made.params = params
                              THEN Some(made.id) ELSE None
    /\ UNCHANGED <<regvars, cfgvars, noncodecvars>>

\* No make_custom_id call was made; the counters are as __init__ sets them.
CodecIdle ==
    /\ _counter = [m \in Managers |-> 0]
    /\ made = NoMade
    /\ prev_id = None
    /\ codec_ops = 0

\* ----------------------------------------------------------------- dispatch

\* Bound on the as_callback_wrapper / as_exception_handler calls of a run.
MaxCustom == 3

\* The custom ids of the interactions that arrive: "C\x00|7" and "X\x00".
IncomingIds == {<<67, 0, 124, 55>>, <<88, 0>>}

\* What _COMPONENT_CTX holds in the context invoke_component is called in:
\* nothing, or the component of a dispatch this one is nested in.
PriorCtx == {None, Some([component |-> [name |-> <<67>>, mod |-> "m1", gen |-> 1],
                         custom_id |-> <<88, 1>>])}

\* What a raised exception is an instance of: Exception, or only
\* BaseException (asyncio.CancelledError, KeyboardInterrupt, SystemExit).
ExceptionKinds == {"Exception", "BaseException"}

\* What an exception handler written by the user may do: return a value or
\* raise.
HandlerResults == {"True", "False", "None", "raise"}

Raised(by, m, kind) == [raised_by |-> by, mgr |-> m, kind |-> kind]

Event(ev, m, res) == [ev |-> ev, mgr |-> m, res |-> res]

NoInv == [pc |-> "idle", comp |-> None, managers |-> <<>>, entered |-> 0,
          handler |-> 0, exc |-> None, result |-> "none", token |-> None]

\* No hook was replaced and no interaction is being handled.
HookIdle ==
    /\ wrap_callback = [m \in Managers |-> "default"]
    /\ handle_exception = [m \in Managers |-> "default"]
    /\ custom_ops = 0

InvIdle ==
    /\ inv = NoInv
    /\ log = <<>>
    /\ component_ctx = None

\* ComponentManager.as_callback_wrapper(func) on manager m. Hooks are
\* replaced between calls of invoke_component.
as_callback_wrapper(m) ==
    /\ inv.pc = "idle"
    /\ custom_ops < MaxCustom
    /\ custom_ops' = custom_ops + 1
    /\ wrap_callback' = [wrap_callback EXCEPT ![m] = "custom"]
    /\ UNCHANGED <<regvars, cfgvars, codecvars, handle_exception, invvars, parservars, botvars, taskvars, eventvars, wrapvars, getvars, msgvars>>

\* ComponentManager.as_exception_handler(func) on manager m.
as_exception_handler(m) ==
    /\ inv.pc = "idle"
    /\ custom_ops < MaxCustom
    /\ custom_ops' = custom_ops + 1
    /\ handle_exception' = [handle_exception EXCEPT ![m] = "custom"]
    /\ UNCHANGED <<regvars, cfgvars, codecvars, wrap_callback, invvars, parservars, botvars, taskvars, eventvars, wrapvars, getvars, msgvars>>

\* The mutant: the wrappers are entered in the order of `managers`.
WrapOrderLeafFirst(managers) == managers

\* reversed(managers)
WrapOrder(managers) == [i \in 1..Len(managers) |-> managers[Len(managers) + 1 - i]]

\* `except Exception as exception`
Caught(exc) == exc.kind = "Exception"

\* The mutant: anything but False counts as handled.
TruthyUnlessFalse(res) == res # "False"

\* `if await manager.handle_exception(...)`: the truth value of the result.
Truthy(res) == res = "True"

\* The mutant: every manager's default handler logs and reports handled.
DefaultHandlerLogsEverywhere(m) == [res |-> "True", logged |-> TRUE]

\* default_exception_handler called for manager m: what it returns and
\* whether it logs.
default_exception_handler(m) ==
    IF m # ROOT
    THEN [res |-> "False", logged |-> FALSE]
    ELSE [res |-> "True", logged |-> TRUE]

\* The end of invoke_component: the finally clause resets _COMPONENT_CTX.
Ended(result, exc) ==
    [inv EXCEPT !.pc = "done", !.result = result, !.exc = exc, !.entered = 0]

\* Where the call goes once the exit stack has unwound with exc in flight:
\* on with the handlers, or out through the finally clause.
AfterStack(exc) ==
    IF exc = None THEN Ended("returned", None)
    ELSE IF Caught(The(exc))
         THEN [inv EXCEPT !.pc = "handle", !.exc = exc, !.entered = 0, !.handler = 1]
         ELSE Ended("raised", exc)

\* invoke_component up to the try statement, called on manager self with an
\* interaction on a component with the given custom id: the component is
\* parsed (a registration whose module is gone is removed on the way), and
\* `managers` and _COMPONENT_CTX are set.
invoke_component(self, custom_id) ==
    /\ inv.pc = "idle"
    /\ LET identifier == get_identifier(self, custom_id).identifier IN
       IF identifier \notin DOMAIN _components[self]
       THEN /\ inv' = [NoInv EXCEPT !.pc = "done", !.result = "unmatched"]
            /\ UNCHANGED <<regvars, component_ctx>>
       ELSE LET component_type == _components[self][identifier]
                module_data == _module_data[self][identifier]
            IN  IF ~ is_active(module_data)
                THEN LET r == Deregistered(self, component_type) IN
                     /\ _components' = r.components
                     /\ _module_data' = r.module_data
                     /\ last_op' = [op |-> "deregister", mgr |-> self,
                                    cls |-> Some(component_type),
                                    ident |-> Some(make_identifier(component_type)),
                                    outcome |-> r.outcome]
                     /\ inv' = IF r.outcome = "ok"
                               THEN [NoInv EXCEPT !.pc = "done", !.result = "unmatched"]
                               ELSE [NoInv EXCEPT !.pc = "done", !.result = "raised",
                                        !.exc = Some(Raised("parse", self, "Exception"))]
                     /\ UNCHANGED <<sys_modules, mod_gen, mod_ops, _identifiers,
                                    cls_manager, reg_ops, component_ctx>>
                ELSE IF cls_manager[component_type] = None
                THEN /\ inv' = [NoInv EXCEPT !.pc = "done", !.result = "unmatched"]
                     /\ UNCHANGED <<regvars, component_ctx>>
                ELSE /\ inv' = [pc |-> "enter", comp |-> Some(component_type),
                                managers |-> _recurse_parents(The(cls_manager[component_type])),
                                entered |-> 0, handler |-> 0, exc |-> None,
                                result |-> "none", token |-> component_ctx]
                     /\ component_ctx' = Some([component |-> component_type,
                                               custom_id |-> custom_id])
                     /\ UNCHANGED regvars
    /\ log' = <<>>
    /\ UNCHANGED <<cfgvars, codecvars, hookvars, parservars, botvars, taskvars, eventvars, wrapvars, getvars, msgvars>>

\* What every step of the call leaves alone.
StepFrame == UNCHANGED <<regvars, cfgvars, codecvars, hookvars, parservars, botvars, taskvars, eventvars, wrapvars, getvars, msgvars>>

\* The mutant: the context is reset only when the call does not raise.
CtxResetUnlessRaised ==
    component_ctx' = IF inv'.pc = "done" /\ inv'.result # "raised"
                     THEN inv.token ELSE component_ctx

\* The finally clause runs in the step in which the call ends:
\* _COMPONENT_CTX.reset(component_ctx_token) puts back the value the
\* variable had before the set.
CtxAfterStep ==
    component_ctx' = IF inv'.pc = "done" THEN inv.token ELSE component_ctx

\* The mutant: the wrappers entered are not exited.
UnwindSkipsExits(entered, exc) == AfterStack(exc)

\* The stack unwinds from `entered` wrappers with exc in flight.
Unwind(entered, exc) ==
    IF entered = 0 THEN AfterStack(exc)
    ELSE [inv EXCEPT !.pc = "exit", !.entered = entered, !.exc = exc]

\* stack.enter_async_context(manager.wrap_callback(...)): the wrapper runs
\* up to its yield.
enter_wrapper ==
    /\ inv.pc = "enter"
    /\ LET manager == WrapOrder(inv.managers)[inv.entered + 1] IN
       /\ log' = Append(log, Event("enter", manager, ""))
       /\ inv' = [inv EXCEPT !.entered = @ + 1,
                             !.pc = IF inv.entered + 1 = Len(inv.managers)
                                    THEN "callback" ELSE "enter"]
    /\ CtxAfterStep
    /\ StepFrame

\* A wrapper written by the user raises before its yield (or never yields):
\* the wrappers entered so far are exited.
enter_wrapper_raises ==
    /\ inv.pc = "enter"
    /\ LET manager == WrapOrder(inv.managers)[inv.entered + 1] IN
       /\ wrap_callback[manager] = "custom"
       /\ \E kind \in ExceptionKinds :
            /\ log' = Append(log, Event("enter_raised", manager, kind))
            /\ inv' = Unwind(inv.entered, Some(Raised("enter", manager, kind)))
    /\ CtxAfterStep
    /\ StepFrame

\* await component.callback(interaction) returns.
run_callback ==
    /\ inv.pc = "callback"
    /\ log' = Append(log, Event("callback", Head(inv.managers), ""))
    /\ inv' = Unwind(inv.entered, None)
    /\ CtxAfterStep
    /\ StepFrame

\* await component.callback(interaction) raises.
run_callback_raises ==
    /\ inv.pc = "callback"
    /\ \E kind \in ExceptionKinds :
        /\ log' = Append(log, Event("callback_raised", Head(inv.managers), kind))
        /\ inv' = Unwind(inv.entered, Some(Raised("callback", Head(inv.managers), kind)))
    /\ CtxAfterStep
    /\ StepFrame

\* The exit stack exits the wrapper entered last: the wrapper runs from its
\* yield to its end, or lets the exception thrown into it pass.
exit_wrapper ==
    /\ inv.pc = "exit"
    /\ LET manager == WrapOrder(inv.managers)[inv.entered] IN
       /\ log' = Append(log, Event("exit", manager, ""))
       /\ inv' = Unwind(inv.entered - 1, inv.exc)
    /\ CtxAfterStep
    /\ StepFrame

\* A wrapper written by the user catches the exception thrown into it.
exit_wrapper_suppresses ==
    /\ inv.pc = "exit"
    /\ inv.exc # None
    /\ LET manager == WrapOrder(inv.managers)[inv.entered] IN
       /\ wrap_callback[manager] = "custom"
       /\ log' = Append(log, Event("exit_suppressed", manager, ""))
       /\ inv' = Unwind(inv.entered - 1, None)
    /\ CtxAfterStep
    /\ StepFrame

\* A wrapper written by the user raises after its yield (or yields again).
exit_wrapper_raises ==
    /\ inv.pc = "exit"
    /\ LET manager == WrapOrder(inv.managers)[inv.entered] IN
       /\ wrap_callback[manager] = "custom"
       /\ \E kind \in ExceptionKinds :
            /\ log' = Append(log, Event("exit_raised", manager, kind))
            /\ inv' = Unwind(inv.entered - 1, Some(Raised("exit", manager, kind)))
    /\ CtxAfterStep
    /\ StepFrame

\* One turn of `for manager in managers` in the except clause, the handler
\* of the manager returning or raising res.
Handle(manager, res, logged) ==
    /\ log' = Append(log, Event("handle", manager, res))
              \o (IF logged THEN <<Event("logged", manager, "")>> ELSE <<>>)
    /\ inv' = IF res = "raise"
              THEN Ended("raised", Some(Raised("handler", manager, "Exception")))
              ELSE IF Truthy(res) \/ inv.handler = Len(inv.managers)
              THEN Ended("returned", inv.exc)
              ELSE [inv EXCEPT !.handler = @ + 1]

call_handler ==
    /\ inv.pc = "handle"
    /\ LET manager == inv.managers[inv.handler] IN
       IF handle_exception[manager] = "default"
       THEN Handle(manager, default_exception_handler(manager).res,
                   default_exception_handler(manager).logged)
       ELSE \E res \in HandlerResults : Handle(manager, res, FALSE)
    /\ CtxAfterStep
    /\ StepFrame

\* The caller has the outcome of the call; the next interaction may arrive.
invoke_return ==
    /\ inv.pc = "done"
    /\ inv' = NoInv
    /\ log' = <<>>
    /\ UNCHANGED component_ctx
    /\ StepFrame

\* ------------------------------------------------------------- IntParser

\* Bound on the absolute value of the integers dumped.
MaxInt == 40

\* The bases IntParser.__init__ accepts.
Bases == 2..36

RECURSIVE ToDigits(_, _)
\* The digits of n >= 0 in the base, most significant first ("0" for 0).
ToDigits(n, base) ==
    IF n < base THEN <<n>> ELSE Append(ToDigits(n \div base, base), n % base)

\* _INT_CHARS[d]: string.digits + string.ascii_lowercase
INT_CHARS(d) == IF d < 10 THEN 48 + d ELSE 97 + (d - 10)

Chars(digits) == [i \in 1..Len(digits) |-> INT_CHARS(digits[i])]

\* str(n), and format(n, "b" | "o" | "x") with the matching base.
Format(n, base) ==
    IF n < 0 THEN <<45>> \o Chars(ToDigits(0 - n, base)) ELSE Chars(ToDigits(n, base))

RECURSIVE ManualDigits(_, _)
\* The while loop of dumps, the digits reversed: nothing for 0.
ManualDigits(n, base) ==
    IF n = 0 THEN <<>> ELSE Append(ManualDigits(n \div base, base), n % base)

\* IntParser.dumps
dumps(argument, base) ==
    IF argument < base THEN Format(argument, 10)
    ELSE IF base = 2 THEN Format(argument, 2)
    ELSE IF base = 8 THEN Format(argument, 8)
    ELSE IF base = 10 THEN Format(argument, 10)
    ELSE IF base = 16 THEN Format(argument, 16)
    ELSE Chars(ManualDigits(argument, base))

\* The value of a character as a digit of int(): 0-9, a-z, A-Z; 36 (a digit
\* of no base) for any other character.
DigitValue(ch) ==
    IF ch >= 48 /\ ch <= 57 THEN ch - 48
    ELSE IF ch >= 97 /\ ch <= 122 THEN ch - 87
    ELSE IF ch >= 65 /\ ch <= 90 THEN ch - 55
    ELSE 36

RECURSIVE DigitsValue(_, _)
DigitsValue(chars, base) ==
    IF chars = <<>> THEN 0
    ELSE DigitsValue(SubSeq(chars, 1, Len(chars) - 1), base) * base
         + DigitValue(chars[Len(chars)])

\* int(argument, base) for an argument made of an optional sign and digits:
\* ValueError when there is no digit or a character is not a digit of the
\* base.
int(argument, base) ==
    LET signed == argument # <<>> /\ Head(argument) \in {43, 45}
        chars == IF signed THEN Tail(argument) ELSE argument
        valid == chars # <<>> /\ \A i \in 1..Len(chars) : DigitValue(chars[i]) < base
    IN  IF ~ valid THEN [raised |-> TRUE, value |-> 0]
        ELSE [raised |-> FALSE,
              value |-> IF signed /\ Head(argument) = 45
                        THEN 0 - DigitsValue(chars, base)
                        ELSE DigitsValue(chars, base)]

\* IntParser.loads
loads(argument, base, signed) ==
    LET result == int(argument, base) IN
    IF result.raised THEN result
    ELSE IF ~ signed /\ result.value < 0 THEN [raised |-> TRUE, value |-> 0]
    ELSE result

NoIntRun == [pc |-> "idle", signed |-> TRUE, base |-> 36, value |-> 0,
             dumped |-> <<>>, loaded |-> [raised |-> FALSE, value |-> 0]]

IntIdle == int_run = NoIntRun

\* The values an IntParser accepts, up to the bound.
Accepted(signed) == IF signed THEN (0 - MaxInt)..MaxInt ELSE 0..MaxInt

IntDumps ==
    /\ int_run.pc = "start"
    /\ int_run' = [int_run EXCEPT !.pc = "dumped", !.dumped = dumps(int_run.value, int_run.base)]
    /\ UNCHANGED <<regvars, cfgvars, codecvars, hookvars, invvars, parser_run, resolvevars, botvars, taskvars, eventvars, wrapvars, getvars, msgvars>>

IntLoads ==
    /\ int_run.pc = "dumped"
    /\ int_run' = [int_run EXCEPT !.pc = "loaded",
                      !.loaded = loads(int_run.dumped, int_run.base, int_run.signed)]
    /\ UNCHANGED <<regvars, cfgvars, codecvars, hookvars, invvars, parser_run, resolvevars, botvars, taskvars, eventvars, wrapvars, getvars, msgvars>>

\* ------------------------------------------------- builtin parsers

\* Python values: t is the type, n the number of an int or a bool (True is
\* 1), s the text of a str, items the elements of a tuple or a list.
IntVal(n) == [t |-> "int", n |-> n, s |-> <<>>, items |-> <<>>]

BoolVal(b) == [t |-> "bool", n |-> IF b THEN 1 ELSE 0, s |-> <<>>, items |-> <<>>]

StrVal(str) == [t |-> "str", n |-> 0, s |-> str, items |-> <<>>]

NoneVal == [t |-> "NoneType", n |-> 0, s |-> <<>>, items |-> <<>>]

TupleVal(items) == [t |-> "tuple", n |-> 0, s |-> <<>>, items |-> items]

ListVal(items) == [t |-> "list", n |-> 0, s |-> <<>>, items |-> items]

\* bool(value)
Falsy(value) ==
    CASE value.t \in {"int", "bool"} -> value.n = 0
      [] value.t = "str" -> value.s = <<>>
      [] value.t = "NoneType" -> TRUE
      [] OTHER -> value.items = <<>>

\* isinstance(value, (type_,)): bool is a subclass of int.
IsInstance(value, type_) ==
    \/ value.t = type_
    \/ value.t = "bool" /\ type_ = "int"

\* The parsers of the scalar types: IntParser(signed, base), BoolParser(),
\* StringParser(), NoneParser(strict).
IntParser(signed, base) == [kind |-> "int", signed |-> signed, base |-> base, strict |-> TRUE]

BoolParser == [kind |-> "bool", signed |-> TRUE, base |-> 10, strict |-> TRUE]

StringParser == [kind |-> "str", signed |-> TRUE, base |-> 10, strict |-> TRUE]

NoneParser(strict) == [kind |-> "NoneType", signed |-> TRUE, base |-> 10, strict |-> strict]

\* A parser written by the user whose loads is a coroutine that awaits its
\* source: it returns the argument, raises a ValueError, or is cancelled at
\* the await (asyncio.CancelledError, which is not an Exception).
SourcedParser(behaviour) == [kind |-> behaviour, signed |-> TRUE, base |-> 10, strict |-> TRUE]

\* The asyncio.CancelledError a cancelled loads raises.
CancelledError == [t |-> "CancelledError", n |-> 0, s |-> <<>>, items |-> <<>>]

\* parser.default_types(): the type the parser class is registered for.
default_types(parser) == parser.kind

\* "true", "t", "yes", "y", "1"
DEFAULT_TRUES == {<<116, 114, 117, 101>>, <<116>>, <<121, 101, 115>>, <<121>>, <<49>>}

\* "false", "f", "no", "n", "0"
DEFAULT_FALSES == {<<102, 97, 108, 115, 101>>, <<102>>, <<110, 111>>, <<110>>, <<48>>}

Returned(out) == [raised |-> FALSE, out |-> out]

RaisedStr == [raised |-> TRUE, out |-> <<>>]

RaisedVal == [raised |-> TRUE, out |-> NoneVal]

\* parser.dumps(value) of a scalar parser. IntParser compares the argument
\* with the base (TypeError for a str or None) and writes a bool below the
\* base with str(): "True" or "False". A StringParser returns its argument
\* as it is, which the caller can use only when it is a str.
ScalarDumps(parser, value) ==
    CASE parser.kind = "int" ->
            IF value.t = "int" THEN Returned(dumps(value.n, parser.base))
            ELSE IF value.t = "bool"
            THEN Returned(IF value.n = 1 THEN <<84, 114, 117, 101>>
                                        ELSE <<70, 97, 108, 115, 101>>)
            ELSE RaisedStr
      [] parser.kind = "bool" -> Returned(IF Falsy(value) THEN <<48>> ELSE <<49>>)
      [] parser.kind = "str" -> IF value.t = "str" THEN Returned(value.s) ELSE RaisedStr
      [] OTHER -> IF value.t = "NoneType" \/ ~ parser.strict THEN Returned(<<>>) ELSE RaisedStr

\* try_loads(parser, argument) of a scalar parser.
ScalarLoads(parser, argument) ==
    CASE parser.kind = "int" ->
            LET r == loads(argument, parser.base, parser.signed) IN
            IF r.raised THEN RaisedVal ELSE Returned(IntVal(r.value))
      [] parser.kind = "bool" ->
            IF argument \in DEFAULT_TRUES THEN Returned(BoolVal(TRUE))
            ELSE IF argument \in DEFAULT_FALSES THEN Returned(BoolVal(FALSE))
            ELSE RaisedVal
      [] parser.kind = "str" -> Returned(StrVal(argument))
      [] parser.kind = "sourced_returns" -> Returned(StrVal(argument))
      [] parser.kind = "sourced_raises" -> RaisedVal
      [] parser.kind = "sourced_cancelled" -> [raised |-> TRUE, out |-> CancelledError]
      [] OTHER -> IF argument = <<>> \/ ~ parser.strict THEN Returned(NoneVal) ELSE RaisedVal

\* A UnionParser, TupleParser or CollectionParser object: its attributes.
Composite(kind, inner_parsers, optional, sep_, collection_type) ==
    [kind |-> kind, inner_parsers |-> inner_parsers, optional |-> optional,
     sep |-> sep_, collection_type |-> collection_type]

\* What a dumps or loads call returned or that it raised, and the inner
\* parsers (by position) it called, in order. Of a call that raised, out is
\* None for the parser's own RuntimeError and else the exception of an inner
\* parser that the call let through.
Result(raised, out, calls) == [raised |-> raised, out |-> out, calls |-> calls]

\* UnionParser.__init__(*inner_parsers), an argument being a parser or None:
\* the parsers in the order given and, when a None was among them, a strict
\* NoneParser last.
UnionParser(args) ==
    LET IsParser(a) == a # None
        given == SelectSeq(args, IsParser)
        parsers == [i \in 1..Len(given) |-> The(given[i])]
        optional == \E i \in 1..Len(args) : args[i] = None
    IN  Composite("union",
                  IF optional THEN Append(parsers, NoneParser(TRUE)) ELSE parsers,
                  optional, <<>>, "")

\* UnionParser.strict
UnionStrict(parser) ==
    IF ~ parser.optional THEN TRUE
    ELSE parser.inner_parsers[Len(parser.inner_parsers)].strict

\* The mutant: nothing is suppressed.
SuppressesNothing(exc) == FALSE

\* `with contextlib.suppress(Exception)`: TRUE for the exceptions it
\* swallows.
Suppresses(exc) == exc # CancelledError

RECURSIVE UnionTry(_, _, _, _)
\* The loop of UnionParser.loads from inner parser i on: the first parser
\* that loads the argument without raising returns; an exception that is
\* not suppressed leaves the call; RuntimeError when every parser raised.
UnionTry(parser, argument, i, calls) ==
    IF i > Len(parser.inner_parsers) THEN Result(TRUE, NoneVal, calls)
    ELSE LET r == ScalarLoads(parser.inner_parsers[i], argument) IN
         IF r.raised
         THEN IF Suppresses(r.out)
              THEN UnionTry(parser, argument, i + 1, Append(calls, i))
              ELSE Result(TRUE, r.out, Append(calls, i))
         ELSE Result(FALSE, r.out, Append(calls, i))

\* The mutant: the empty string is tried on the inner parsers like any
\* other.
UnionLoadsNoQuickReturn(parser, argument) == UnionTry(parser, argument, 1, <<>>)

\* UnionParser.loads
UnionLoads(parser, argument) ==
    IF argument = <<>> /\ parser.optional
    THEN Result(FALSE, NoneVal, <<>>)
    ELSE UnionTry(parser, argument, 1, <<>>)

\* UnionParser.dumps
UnionDumps(parser, value) ==
    LET matching == {i \in 1..Len(parser.inner_parsers) :
                        IsInstance(value, default_types(parser.inner_parsers[i]))}
    IN  IF Falsy(value) /\ parser.optional
        THEN Result(FALSE, <<>>, <<>>)
        ELSE IF matching # {}
        THEN LET i == CHOOSE i \in matching : \A j \in matching : i <= j
                 r == ScalarDumps(parser.inner_parsers[i], value)
             IN  Result(r.raised, r.out, <<i>>)
        ELSE IF parser.optional /\ ~ UnionStrict(parser)
        THEN Result(FALSE, <<>>, <<>>)
        ELSE Result(TRUE, <<>>, <<>>)

\* TupleParser.__init__(*inner_parsers, sep): a single StringParser when no
\* inner parser is given.
TupleParser(inner_parsers, sep_) ==
    Composite("tuple",
              IF inner_parsers = <<>> THEN <<StringParser>> ELSE inner_parsers,
              FALSE, sep_, "tuple")

\* CollectionParser.__init__(inner_parser, collection_type=list, sep)
CollectionParser(inner_parser, sep_) ==
    Composite("collection", <<inner_parser>>, FALSE, sep_, "list")

RECURSIVE LoadEach(_, _, _, _, _)
\* The list comprehension of TupleParser.loads and CollectionParser.loads
\* from part i on: part i is loaded by the parser ParserFor gives for it; an
\* inner parser that raises ends the call.
LoadEach(parsers, parts, i, out, calls) ==
    IF i > Len(parts) \/ i > Len(parsers) THEN Result(FALSE, out, calls)
    ELSE LET r == ScalarLoads(parsers[i], parts[i]) IN
         IF r.raised THEN Result(TRUE, <<>>, Append(calls, i))
         ELSE LoadEach(parsers, parts, i + 1, Append(out, r.out), Append(calls, i))

RECURSIVE DumpEach(_, _, _, _, _)
\* The list comprehension of TupleParser.dumps and CollectionParser.dumps.
DumpEach(parsers, items, i, out, calls) ==
    IF i > Len(items) \/ i > Len(parsers) THEN Result(FALSE, out, calls)
    ELSE LET r == ScalarDumps(parsers[i], items[i]) IN
         IF r.raised THEN Result(TRUE, <<>>, Append(calls, i))
         ELSE DumpEach(parsers, items, i + 1, Append(out, r.out), Append(calls, i))

\* The mutant: no check of the number of parts; zip stops at the shorter.
TupleLoadsNoCheck(parser, argument) ==
    LET r == LoadEach(parser.inner_parsers, Split(argument, parser.sep), 1, <<>>, <<>>) IN
    Result(r.raised, IF r.raised THEN NoneVal ELSE TupleVal(r.out), r.calls)

\* TupleParser.loads
TupleLoads(parser, argument) ==
    LET parts == Split(argument, parser.sep) IN
    IF Len(parts) # Len(parser.inner_parsers)
    THEN Result(TRUE, NoneVal, <<>>)
    ELSE LET r == LoadEach(parser.inner_parsers, parts, 1, <<>>, <<>>) IN
         Result(r.raised, IF r.raised THEN NoneVal ELSE TupleVal(r.out), r.calls)

\* TupleParser.dumps
TupleDumps(parser, value) ==
    IF Len(value.items) # Len(parser.inner_parsers)
    THEN Result(TRUE, <<>>, <<>>)
    ELSE LET r == DumpEach(parser.inner_parsers, value.items, 1, <<>>, <<>>) IN
         Result(r.raised, IF r.raised THEN <<>> ELSE Join(r.out, parser.sep), r.calls)

\* str.isspace(): at least one character and only whitespace.
IsSpace(str) ==
    /\ str # <<>>
    /\ \A i \in 1..Len(str) : str[i] \in {9, 10, 11, 12, 13, 28, 29, 30, 31, 32}

\* The inner parser of a collection, once per part.
Repeat(parser, n) == [i \in 1..n |-> parser]

\* CollectionParser.loads: the parts between the parser's separator that are
\* not whitespace, each loaded by the inner parser.
CollectionLoads(parser, argument) ==
    LET NotSpace(part) == ~ IsSpace(part)
        parts == SelectSeq(Split(argument, parser.sep), NotSpace)
        r == LoadEach(Repeat(parser.inner_parsers[1], Len(parts)), parts, 1, <<>>, <<>>)
    IN  Result(r.raised, IF r.raised THEN NoneVal ELSE ListVal(r.out), r.calls)

\* CollectionParser.dumps: the dumped items joined with ",".
CollectionDumps(parser, value) ==
    LET n == Len(value.items)
        r == DumpEach(Repeat(parser.inner_parsers[1], n), value.items, 1, <<>>, <<>>)
    IN  Result(r.raised, IF r.raised THEN <<>> ELSE Join(r.out, <<44>>), r.calls)

\* parser.dumps(value) and parser.loads(argument) of a composite parser.
CompositeDumps(parser, value) ==
    CASE parser.kind = "union" -> UnionDumps(parser, value)
      [] parser.kind = "tuple" -> TupleDumps(parser, value)
      [] parser.kind = "collection" -> CollectionDumps(parser, value)

CompositeLoads(parser, argument) ==
    CASE parser.kind = "union" -> UnionLoads(parser, argument)
      [] parser.kind = "tuple" -> TupleLoads(parser, argument)
      [] parser.kind = "collection" -> CollectionLoads(parser, argument)

NoParserRun ==
    [pc |-> "idle", parser |-> Composite("union", <<>>, FALSE, <<>>, ""),
     value |-> NoneVal, given |-> FALSE,
     dumped |-> Result(FALSE, <<>>, <<>>), loaded |-> Result(FALSE, NoneVal, <<>>)]

ParserIdle == parser_run = NoParserRun

\* A run that dumps the value and loads the result.
RoundTrip(parser, value) ==
    [NoParserRun EXCEPT !.pc = "start", !.parser = parser, !.value = value]

\* A run that loads the given string.
LoadGiven(parser, argument) ==
    [NoParserRun EXCEPT !.pc = "dumped", !.parser = parser, !.given = TRUE,
                        !.dumped = Result(FALSE, argument, <<>>)]

ParserDumps ==
    /\ parser_run.pc = "start"
    /\ parser_run' = [parser_run EXCEPT !.pc = "dumped",
                         !.dumped = CompositeDumps(parser_run.parser, parser_run.value)]
    /\ UNCHANGED <<regvars, cfgvars, codecvars, hookvars, invvars, int_run, resolvevars, botvars, taskvars, eventvars, wrapvars, getvars, msgvars>>

ParserLoads ==
    /\ parser_run.pc = "dumped"
    /\ ~ parser_run.dumped.raised
    /\ parser_run' = [parser_run EXCEPT !.pc = "loaded",
                         !.loaded = CompositeLoads(parser_run.parser, parser_run.dumped.out)]
    /\ UNCHANGED <<regvars, cfgvars, codecvars, hookvars, invvars, int_run, resolvevars, botvars, taskvars, eventvars, wrapvars, getvars, msgvars>>

\* ------------------------------------------------------ parser registry

\* Bound on the registration calls of a run.
MaxParserRegs == 2

\* The parser classes that are registered.
ParserClasses == {"TupleParser", "CollectionParser"}

\* The types of the runs: Point is a NamedTuple class, a subclass of tuple;
\* tuple and list are (virtual) subclasses of typing.Collection.
Types == {"tuple", "list", "Collection", "Point"}

\* The `*types` of the registration calls.
TypeArgs == {<<"tuple">>, <<"Collection">>, <<"list", "Collection">>}

\* The priority keyword of a registration call: omitted, 0 or 10.
PriorityArgs == {None, Some(0), Some(10)}

\* issubclass(cls, other)
IsSubclass(cls, other) ==
    \/ cls = other
    \/ <<cls, other>> \in {<<"Point", "tuple">>, <<"Point", "Collection">>,
                         <<"tuple", "Collection">>, <<"list", "Collection">>}

\* _issubclass(cls, class_or_tuple)
_issubclass(cls, class_or_tuple) ==
    \E k \in 1..Len(class_or_tuple) : IsSubclass(cls, class_or_tuple[k])

\* The position of the parser class in _REV_PARSERS, 0 when it has none.
RevIndex(rev, parser) ==
    IF \E k \in 1..Len(rev) : rev[k].parser = parser
    THEN CHOOSE k \in 1..Len(rev) : rev[k].parser = parser
    ELSE 0

\* _REV_PARSERS[parser] = types: a class that has an entry keeps its place.
RevSet(rev, parser, types) ==
    IF RevIndex(rev, parser) = 0
    THEN Append(rev, [parser |-> parser, types |-> types])
    ELSE [rev EXCEPT ![RevIndex(rev, parser)].types = types]

\* `for parser, parser_types in _REV_PARSERS.items()`
SlowLookupOrder(rev) == rev

\* _get_parser_type(type_): the registered class for the type itself; else
\* the first class in _REV_PARSERS one of whose types the type is a subclass
\* of; None (TypeError) when there is none.
_get_parser_type(type_) ==
    IF type_ \in DOMAIN _PARSERS THEN Some(_PARSERS[type_])
    ELSE LET rev == SlowLookupOrder(_REV_PARSERS)
             matching == {k \in 1..Len(rev) : _issubclass(type_, rev[k].types)}
         IN  IF matching = {} THEN None
             ELSE Some(rev[CHOOSE k \in matching : \A j \in matching : k <= j].parser)

Call(parser, types, priority, outcome) ==
    [parser |-> parser, types |-> types, priority |-> priority, outcome |-> outcome]

\* The writes of register_parser(parser, *types, force=force).
Registered(parser, types, force) ==
    LET known == DOMAIN _PARSERS
        named == Range(types)
    IN  /\ _REV_PARSERS' = IF force \/ RevIndex(_REV_PARSERS, parser) = 0
                           THEN RevSet(_REV_PARSERS, parser, types)
                           ELSE _REV_PARSERS
        /\ _PARSERS' = [t \in known \cup named |->
                            IF t \in named /\ (force \/ t \notin known)
                            THEN parser ELSE _PARSERS[t]]

\* register_parser(parser, *types, force=force)
register_parser(parser, types, force) ==
    /\ Len(parser_calls) < MaxParserRegs
    /\ Registered(parser, types, force)
    /\ parser_calls' = Append(parser_calls, Call(parser, types, None, "ok"))
    /\ UNCHANGED <<regvars, cfgvars, codecvars, hookvars, invvars, int_run, parser_run, botvars, taskvars, eventvars, wrapvars, getvars, msgvars>>

\* @register_parser_for(*is_default_for) applied to a parser class. The
\* function takes no keyword: a call that passes priority=... raises
\* TypeError and registers nothing.
register_parser_for(parser, types, priority) ==
    /\ Len(parser_calls) < MaxParserRegs
    /\ IF priority # None
       THEN /\ parser_calls' = Append(parser_calls, Call(parser, types, priority, "TypeError"))
            /\ UNCHANGED <<_PARSERS, _REV_PARSERS>>
       ELSE /\ parser_calls' = Append(parser_calls, Call(parser, types, priority, "ok"))
            /\ Registered(parser, types, TRUE)
    /\ UNCHANGED <<regvars, cfgvars, codecvars, hookvars, invvars, int_run, parser_run, botvars, taskvars, eventvars, wrapvars, getvars, msgvars>>

\* No parser class is registered.
ResolveIdle ==
    /\ _PARSERS = EmptyDict
    /\ _REV_PARSERS = <<>>
    /\ parser_calls = <<>>

\* ------------------------------------------------------------------- bots

MaxBotOps == 4

Bots == {"b1", "b2"}

BotOp(op, self, b, listening, outcome, value) ==
    [op |-> op, manager |-> self, bot |-> b, listening |-> listening,
     outcome |-> outcome, value |-> value]

NoBotOp == BotOp("none", ROOT, None, FALSE, "ok", None)

\* The mutant: the listeners of the bot are not consulted.
NeverListening(self, b) == FALSE

\* self.invoke_component in bot.extra_events.get(_COMPONENT_EVENT, [])
IsListening(self, b) == self \in Range(extra_events[b])

\* bot.remove_listener(self.invoke_component, _COMPONENT_EVENT): the list
\* without the first occurrence of the listener.
remove_listener(listeners, self) ==
    LET k == CHOOSE i \in 1..Len(listeners) :
                 listeners[i] = self /\ \A j \in 1..(i - 1) : listeners[j] # self
    IN  SubSeq(listeners, 1, k - 1) \o SubSeq(listeners, k + 1, Len(listeners))

\* ComponentManager.add_to_bot(bot)
add_to_bot(self, b) ==
    /\ bot_ops < MaxBotOps
    /\ bot_ops' = bot_ops + 1
    /\ IF IsListening(self, b)
       THEN /\ last_bot_op' = BotOp("add_to_bot", self, Some(b), TRUE, "RuntimeError", None)
            /\ UNCHANGED <<extra_events, _bot>>
       ELSE /\ extra_events' = [extra_events EXCEPT ![b] = Append(@, self)]
            /\ _bot' = DictSet(_bot, self, Some(b))
            /\ last_bot_op' = BotOp("add_to_bot", self, Some(b), FALSE, "ok", None)
    /\ UNCHANGED <<regvars, cfgvars, codecvars, hookvars, invvars, parservars, taskvars, eventvars, wrapvars, getvars, msgvars>>

\* ComponentManager.remove_from_bot(bot); the _bot slot is left as it is.
remove_from_bot(self, b) ==
    /\ bot_ops < MaxBotOps
    /\ bot_ops' = bot_ops + 1
    /\ IF ~IsListening(self, b)
       THEN /\ last_bot_op' = BotOp("remove_from_bot", self, Some(b), FALSE, "RuntimeError", None)
            /\ UNCHANGED extra_events
       ELSE /\ extra_events' = [extra_events EXCEPT ![b] = remove_listener(@, self)]
            /\ last_bot_op' = BotOp("remove_from_bot", self, Some(b), TRUE, "ok", None)
    /\ UNCHANGED <<_bot, regvars, cfgvars, codecvars, hookvars, invvars, parservars, taskvars, eventvars, wrapvars, getvars, msgvars>>

RECURSIVE FirstBot(_, _)
\* The loop of _recurse_parents_getattr(self, "_bot", None) over chain[i..]:
\* getattr of a slot that was never assigned raises AttributeError.
FirstBot(chain, i) ==
    IF i > Len(chain) THEN [outcome |-> "returned", value |-> None]
    ELSE IF chain[i] \notin DOMAIN _bot THEN [outcome |-> "AttributeError", value |-> None]
    ELSE IF _bot[chain[i]] # None THEN [outcome |-> "returned", value |-> _bot[chain[i]]]
    ELSE FirstBot(chain, i + 1)

\* ComponentManager.bot, the property.
bot(self) ==
    LET found == FirstBot(_recurse_parents(self), 1) IN
    IF found.outcome = "AttributeError" THEN found
    ELSE IF found.value # None THEN found
    ELSE [outcome |-> "RuntimeError", value |-> None]

\* A read of manager.bot.
read_bot(self) ==
    /\ bot_ops < MaxBotOps
    /\ bot_ops' = bot_ops + 1
    /\ last_bot_op' = BotOp("bot", self, None, FALSE, bot(self).outcome, bot(self).value)
    /\ UNCHANGED <<extra_events, _bot, regvars, cfgvars, codecvars, hookvars, invvars, parservars, taskvars, eventvars, wrapvars, getvars, msgvars>>

\* No manager was given a bot at construction; no bot has a listener.
BotIdle ==
    /\ extra_events = [b \in Bots |-> <<>>]
    /\ _bot = EmptyDict
    /\ last_bot_op = NoBotOp
    /\ bot_ops = 0

\* ------------------------------------------------- make_custom_id as tasks

\* Number of make_custom_id calls in flight at once.
MaxTasks == 3

\* Task t is the t-th call started.
TaskIds == 1..MaxTasks

NoTask == [pc |-> "idle", mgr |-> ROOT, identifier |-> <<>>, count |-> None, id |-> <<>>]

\* The mutant: the counter is read and the advanced value is not stored.
IncrementNotStored(m) == [count |-> _minimise_count(_counter[m]), counter |-> _counter[m]]

\* ComponentManager.increment on manager m: the count character returned and
\* the counter afterwards. The method is not a coroutine.
increment(m) ==
    [count |-> _minimise_count(_counter[m]), counter |-> NextCounter(_counter[m])]

\* make_custom_id(component) on manager m, from the call to the
\* `await component.factory.dump_params(component)`: the identifier is looked
\* up and, when the manager counts, the count character is appended and the
\* counter advanced, all without a suspension point.
task_start(t, m, c) ==
    /\ tasks[t].pc = "idle"
    /\ \A u \in 1..(t - 1) : tasks[u].pc # "idle"
    /\ IF c.name \notin DOMAIN _identifiers[m]
       THEN /\ tasks' = [tasks EXCEPT ![t] = [NoTask EXCEPT !.pc = "KeyError", !.mgr = m]]
            /\ UNCHANGED _counter
       ELSE IF count(m)
       THEN /\ tasks' = [tasks EXCEPT ![t] =
                    [pc |-> "awaiting", mgr |-> m,
                     identifier |-> _identifiers[m][c.name] \o increment(m).count,
                     count |-> Some(increment(m).count), id |-> <<>>]]
            /\ _counter' = [_counter EXCEPT ![m] = increment(m).counter]
       ELSE /\ tasks' = [tasks EXCEPT ![t] =
                    [pc |-> "awaiting", mgr |-> m, identifier |-> _identifiers[m][c.name],
                     count |-> None, id |-> <<>>]]
            /\ UNCHANGED _counter
    /\ UNCHANGED <<regvars, cfgvars, made, prev_id, codec_ops, hookvars, invvars, parservars, botvars, eventvars, wrapvars, getvars, msgvars>>

\* dump_params has returned (the component has one field, dumped as "7"):
\* the task resumes and returns self.sep.join([identifier, *values]).
task_resume(t) ==
    /\ tasks[t].pc = "awaiting"
    /\ tasks' = [tasks EXCEPT ![t] = [@ EXCEPT !.pc = "returned",
                    !.id = Join(<<tasks[t].identifier, <<55>>>>, sep(tasks[t].mgr))]]
    /\ UNCHANGED <<regvars, cfgvars, codecvars, hookvars, invvars, parservars, botvars, eventvars, wrapvars, getvars, msgvars>>

\* No make_custom_id call is running.
TaskIdle == tasks = [t \in TaskIds |-> NoTask]

\* ------------------------------------------------------- event delivery

\* No interaction event is being dispatched.
EventIdle ==
    /\ pending = <<>>
    /\ interaction = None
    /\ callback_runs = 0


\* The bot dispatches the component event of an interaction with the given
\* custom id: every listener in extra_events at that moment is scheduled,
\* in the order of the list.
dispatch(b, custom_id) ==
    /\ pending = <<>>
    /\ extra_events[b] # <<>>
    /\ pending' = extra_events[b]
    /\ interaction' = Some(custom_id)
    /\ callback_runs' = 0
    /\ UNCHANGED <<regvars, cfgvars, codecvars, hookvars, invvars, parservars, botvars, taskvars, wrapvars, getvars, msgvars>>

\* The listener scheduled first runs: invoke_component of its manager, from
\* the parse of the interaction to the end, the managers' hooks being the
\* default ones and the callback returning.
deliver ==
    /\ pending # <<>>
    /\ pending' = Tail(pending)
    /\ LET self == Head(pending)
           identifier == get_identifier(self, The(interaction)).identifier
       IN  IF identifier \notin DOMAIN _components[self]
           THEN UNCHANGED <<regvars, callback_runs>>
           ELSE LET component_type == _components[self][identifier] IN
                IF ~ is_active(_module_data[self][identifier])
                THEN LET r == Deregistered(self, component_type) IN
                     /\ _components' = r.components
                     /\ _module_data' = r.module_data
                     /\ last_op' = [op |-> "deregister", mgr |-> self,
                                    cls |-> Some(component_type),
                                    ident |-> Some(make_identifier(component_type)),
                                    outcome |-> r.outcome]
                     /\ UNCHANGED <<sys_modules, mod_gen, mod_ops, _identifiers,
                                    cls_manager, reg_ops, callback_runs>>
                ELSE IF cls_manager[component_type] = None
                THEN UNCHANGED <<regvars, callback_runs>>
                ELSE /\ callback_runs' = callback_runs + 1
                     /\ UNCHANGED regvars
    /\ UNCHANGED <<interaction, cfgvars, codecvars, hookvars, invvars, parservars, botvars, taskvars, wrapvars, getvars, msgvars>>
\* ------------------------------------------------- wrap_interaction_for

\* kwargs: the keywords and their arguments, in the order of the call.
NoKwargs == [keys |-> <<>>, values |-> <<>>]

NoWrapRun == [args |-> <<>>, kwargs |-> NoKwargs, outcome |-> "none",
              new_args |-> <<>>, new_kwargs |-> NoKwargs]

\* No wrapped callback was called.
WrapIdle == wrap_run = NoWrapRun

\* Bound on the number of positional arguments of a call.
MaxArgs == 3

\* An argument: a plain object, a disnake.Interaction, or the wrapped form
\* of an interaction.
Obj(name) == [name |-> name, interaction |-> FALSE, wrapped |-> FALSE]

Interaction(name) == [name |-> name, interaction |-> TRUE, wrapped |-> FALSE]

\* The arguments of the runs: a plain object and two interactions.
ArgValues == {Obj("x"), Interaction("i1"), Interaction("i2")}

\* **kwargs, in the order of the call: keyword and argument.
KwargsOf(keys) == [1..Len(keys) -> ArgValues]

KeywordOrders == {<<>>, <<"k1">>, <<"k2">>, <<"k1", "k2">>, <<"k2", "k1">>}

\* isinstance(arg, disnake.Interaction)
IsInteraction(arg) == arg.interaction /\ ~ arg.wrapped

\* wrap_interaction(interaction)
wrap_interaction(arg) == [arg EXCEPT !.interaction = FALSE, !.wrapped = TRUE]

\* The position of the first interaction among the arguments, 0 when there
\* is none.
FirstInteraction(arguments) ==
    IF \E p \in 1..Len(arguments) : IsInteraction(arguments[p])
    THEN CHOOSE p \in 1..Len(arguments) :
            IsInteraction(arguments[p]) /\ \A q \in 1..(p - 1) : ~ IsInteraction(arguments[q])
    ELSE 0

\* The else clause of the loop over the arguments: the first interaction
\* among the keyword arguments is wrapped in place, TypeError when there is
\* none; then new_args.extend(args_iter) with what the iterator has left.
WrapKwargs(args, kwargs, consumed, new_args) ==
    LET p == FirstInteraction(kwargs.values) IN
    IF p = 0
    THEN [outcome |-> "TypeError", new_args |-> <<>>, new_kwargs |-> kwargs]
    ELSE [outcome |-> "returned",
          new_args |-> new_args \o SubSeq(args, consumed + 1, Len(args)),
          new_kwargs |-> [kwargs EXCEPT !.values[p] = wrap_interaction(@)]]

\* zip(args_iter, range(2)) at its turn k + 1, the iterator having given
\* `consumed` arguments: zip asks args_iter first, so when the range is
\* exhausted (k = 2) one more argument has left the iterator.
ZipConsumed(consumed, k) == consumed + 1

RECURSIVE WrapArgs(_, _, _, _, _)
\* `for arg, _ in zip(args_iter, range(2))` from turn k + 1 on.
WrapArgs(args, kwargs, consumed, k, new_args) ==
    IF consumed = Len(args) THEN WrapKwargs(args, kwargs, consumed, new_args)
    ELSE IF k = 2 THEN WrapKwargs(args, kwargs, ZipConsumed(consumed, k), new_args)
    ELSE LET arg == args[consumed + 1] IN
         IF IsInteraction(arg)
         THEN [outcome |-> "returned",
               new_args |-> Append(new_args, wrap_interaction(arg))
                            \o SubSeq(args, consumed + 2, Len(args)),
               new_kwargs |-> kwargs]
         ELSE WrapArgs(args, kwargs, consumed + 1, k + 1, Append(new_args, arg))

\* wrap_args_kwargs(args, kwargs)
wrap_args_kwargs(args, kwargs) == WrapArgs(args, kwargs, 0, 0, <<>>)

\* The wrapper wrap_interaction_for returns is called with the arguments of
\* the run: it calls the callback with what wrap_args_kwargs returns, or
\* raises its TypeError.
wrapper ==
    /\ wrap_run.outcome = "start"
    /\ LET r == wrap_args_kwargs(wrap_run.args, wrap_run.kwargs) IN
       wrap_run' = [wrap_run EXCEPT
                        !.outcome = IF r.outcome = "returned" THEN "called" ELSE r.outcome,
                        !.new_args = r.new_args,
                        !.new_kwargs = r.new_kwargs]
    /\ UNCHANGED <<regvars, cfgvars, codecvars, hookvars, invvars, parservars, botvars, taskvars, eventvars, getvars, msgvars>>

\* ------------------------------------------------------------ get_parser

\* The registrations made by the decorators of builtins.py for the scalar
\* types and for typing.Union, in the order of the file.
BuiltinRegistrations ==
    << [parser |-> "NoneParser", types |-> <<"NoneType">>],
       [parser |-> "IntParser", types |-> <<"int">>],
       [parser |-> "BoolParser", types |-> <<"bool">>],
       [parser |-> "StringParser", types |-> <<"str">>],
       [parser |-> "UnionParser", types |-> <<"Union">>] >>

\* A type annotation: a class, or Union[...] of classes (Optional[T] is
\* Union[T, None]); typing.get_origin and typing.get_args of it.
Class(name) == [origin |-> "", name |-> name, args |-> <<>>]

Union(args) == [origin |-> "Union", name |-> "", args |-> args]

\* cls.default() of a scalar parser class: cls().
ParserDefault(cls) ==
    CASE cls = "IntParser" -> IntParser(TRUE, 36)
      [] cls = "BoolParser" -> BoolParser
      [] cls = "StringParser" -> StringParser
      [] OTHER -> NoneParser(TRUE)

\* get_parser(type_): the default parser of a class; for a Union the parser
\* class registered for typing.Union, called with the parsers that
\* get_parser returns for the type arguments.
get_parser(type_) ==
    IF type_.origin = ""
    THEN ParserDefault(The(_get_parser_type(type_.name)))
    ELSE UnionParser([i \in 1..Len(type_.args) |->
                        Some(ParserDefault(The(_get_parser_type(type_.args[i]))))])

NoGetRun ==
    [pc |-> "idle", type_ |-> Union(<<>>), parser |-> Composite("union", <<>>, FALSE, <<>>, ""),
     argument |-> None, loaded |-> Result(FALSE, NoneVal, <<>>),
     value |-> None, dumped |-> Result(FALSE, <<>>, <<>>)]

\* No get_parser call was made.
GetIdle == get_run = NoGetRun

\* parser = get_parser(type_)
GetParser ==
    /\ get_run.pc = "start"
    /\ get_run' = [get_run EXCEPT !.pc = "got", !.parser = get_parser(get_run.type_)]
    /\ UNCHANGED <<regvars, cfgvars, codecvars, hookvars, invvars, parservars, botvars, taskvars, eventvars, wrapvars, msgvars>>

\* parser.loads(argument) on the parser returned.
GetLoads(argument) ==
    /\ get_run.pc = "got"
    /\ get_run.argument = None
    /\ get_run' = [get_run EXCEPT !.argument = Some(argument),
                                  !.loaded = UnionLoads(get_run.parser, argument)]
    /\ UNCHANGED <<regvars, cfgvars, codecvars, hookvars, invvars, parservars, botvars, taskvars, eventvars, wrapvars, msgvars>>

\* parser.dumps(value) on the parser returned.
GetDumps(value) ==
    /\ get_run.pc = "got"
    /\ get_run.value = None
    /\ get_run' = [get_run EXCEPT !.value = Some(value),
                                  !.dumped = UnionDumps(get_run.parser, value)]
    /\ UNCHANGED <<regvars, cfgvars, codecvars, hookvars, invvars, parservars, botvars, taskvars, eventvars, wrapvars, msgvars>>

\* ------------------------------------------- parse_message_components

\* Bound on the number of components of a message.
MaxPositions == 3

\* message.components: the custom ids of the components of a message in
\* reading order, the first `cut` of them in its first row and the others in
\* its second.
Messages ==
    UNION { [ids : [1..n -> IncomingIds], cut : 1..n] : n \in 1..MaxPositions }

\* The rows of a sequence of one entry per position.
Rows(entries, cut) ==
    IF cut = Len(entries) THEN <<entries>>
    ELSE <<SubSeq(entries, 1, cut), SubSeq(entries, cut + 1, Len(entries))>>

\* A component object of the result: a rich component or a disnake ui
\* component. obj tells the objects apart: 0 is the instance _COMPONENT_CTX
\* holds, k > 0 the k-th object the call made.
Parsed(rich, custom_id, obj) == [rich |-> rich, custom_id |-> custom_id, obj |-> obj]

NoParsed == [during |-> "none", comp |-> None, ctx |-> None, self |-> ROOT,
             message |-> [ids |-> <<>>, cut |-> 0], outcome |-> "none",
             rows |-> <<>>, rich_components |-> <<>>]

MsgIdle == parsed = NoParsed

\* deregister_component(c) called on manager m with the tables given.
DeregisteredFrom(tables, m, c) ==
    LET identifier == make_identifier(c) IN
    IF identifier \notin DOMAIN tables.components[m]
    THEN [tables EXCEPT !.outcome = "KeyError"]
    ELSE LET component == tables.components[m][identifier] IN
         IF cls_manager[component] = None
         THEN [tables EXCEPT !.outcome = "TypeError"]
         ELSE PopChain(tables, _recurse_parents(The(cls_manager[component])), 1, identifier)

\* parse_raw_component on manager self with the tables given: the tables
\* afterwards, how the call ended and whether it returned a rich component.
ParsedRaw(tables, self, custom_id) ==
    LET identifier == get_identifier(self, custom_id).identifier
        none == [tables |-> tables, rich |-> FALSE, dereg |-> None]
    IN  IF identifier \notin DOMAIN tables.components[self] THEN none
        ELSE LET component_type == tables.components[self][identifier] IN
             IF is_active(tables.module_data[self][identifier])
             THEN [none EXCEPT !.rich = TRUE]
             ELSE [none EXCEPT !.tables = DeregisteredFrom(tables, self, component_type),
                               !.dereg = Some(component_type)]

\* The mutant: the test goes on after the first match.
ShouldTestAfterMatchKept == TRUE

\* `should_test = False` once a position took the current component.
ShouldTestAfterMatch == FALSE

RECURSIVE ParseFrom(_, _, _, _)
\* The loops of parse_message_components from position i on, in reading
\* order. st holds the tables, the components placed so far, should_test,
\* the number of objects made and the class deregistered last.
ParseFrom(self, ids, i, st) ==
    IF i > Len(ids) \/ st.tables.outcome # "ok" THEN st
    ELSE IF st.should_test /\ ids[i] = The(component_ctx).custom_id
    THEN ParseFrom(self, ids, i + 1,
            [st EXCEPT !.should_test = ShouldTestAfterMatch,
                       !.out = Append(@, Parsed(TRUE, ids[i], 0))])
    ELSE LET r == ParsedRaw(st.tables, self, ids[i]) IN
         IF r.tables.outcome # "ok"
         THEN [st EXCEPT !.tables = r.tables, !.dereg = r.dereg]
         ELSE ParseFrom(self, ids, i + 1,
                [st EXCEPT !.tables = r.tables,
                           !.dereg = IF r.dereg # None THEN r.dereg ELSE @,
                           !.made = @ + 1,
                           !.out = Append(@, Parsed(r.rich, ids[i], st.made + 1))])

\* The rich components among the components placed, in reading order.
RichOf(entries) == SelectSeq(entries, LAMBDA c : c.rich)

\* ComponentManager.parse_message_components(message, *reference_objects)
\* on manager self, called with reference objects, at any point of an
\* invocation or outside one. Every component whose registration is stale is
\* deregistered on the way; an exception of that ends the call. A run
\* follows one such call.
parse_message_components(self, message) ==
    /\ parsed = NoParsed
    /\ LET st == ParseFrom(self, message.ids, 1,
                   [tables |-> [components |-> _components, module_data |-> _module_data,
                                outcome |-> "ok"],
                    out |-> <<>>, should_test |-> component_ctx # None,
                    made |-> 0, dereg |-> None])
           returned == st.tables.outcome = "ok"
       IN  /\ parsed' = [during |-> inv.pc, comp |-> inv.comp, ctx |-> component_ctx,
                         self |-> self, message |-> message,
                         outcome |-> IF returned THEN "returned" ELSE st.tables.outcome,
                         rows |-> IF returned THEN Rows(st.out, message.cut) ELSE <<>>,
                         rich_components |-> IF returned THEN RichOf(st.out) ELSE <<>>]
           /\ _components' = st.tables.components
           /\ _module_data' = st.tables.module_data
           /\ last_op' = IF st.dereg = None THEN last_op
                         ELSE [op |-> "deregister", mgr |-> self, cls |-> st.dereg,
                               ident |-> Some(make_identifier(The(st.dereg))),
                               outcome |-> st.tables.outcome]
           /\ UNCHANGED <<sys_modules, mod_gen, mod_ops, _identifiers, cls_manager, reg_ops>>
           /\ UNCHANGED <<cfgvars, codecvars, hookvars, invvars, parservars, botvars, taskvars, eventvars, wrapvars, getvars>>

\* ----------------------------------------------------------- specification

\* The program has imported the modules that define the component classes;
\* every manager is as ComponentManager.__init__ leaves it.
RegInit ==
    /\ sys_modules = [mod \in ModNames |-> Some(1)]
    /\ mod_gen = [mod \in ModNames |-> 1]
    /\ mod_ops = 0
    /\ _components = [m \in Managers |-> EmptyDict]
    /\ _module_data = [m \in Managers |-> EmptyDict]
    /\ _identifiers = [m \in Managers |-> EmptyDict]
    /\ cls_manager = [c \in Classes |-> None]
    /\ last_op = NoOp
    /\ reg_ops = 0

RegNext ==
    \/ \E mod \in ModNames : ImportModule(mod)
    \/ \E mod \in ModNames : UnloadModule(mod)
    \/ \E m \in Managers, c \in Classes, identifier \in IdentifierArgs :
            register_component(m, c, identifier)
    \/ \E m \in Managers, c \in Classes : deregister_component(m, c)

\* Everything as constructed: no registration, no configuration, no call.
Idle == RegInit /\ CfgInit /\ CodecIdle /\ HookIdle /\ InvIdle /\ IntIdle /\ ParserIdle /\ ResolveIdle /\ BotIdle /\ TaskIdle /\ EventIdle /\ WrapIdle /\ GetIdle /\ MsgIdle

SpecRegistry == Idle /\ [][RegNext]_vars

ConfigNext == CfgNext /\ UNCHANGED codec_ops

SpecConfig == Idle /\ [][ConfigNext]_vars

\* The class the codec runs are about: "C" of module m1.
CodecClass == [name |-> <<67>>, mod |-> "m1", gen |-> 1]

\* Counter values a codec run starts from: that of a new manager, and the
\* last one before the wrap (reached after 24 calls).
CounterStarts == {0, MaxCounter}

\* CodecClass was registered on manager n, under its class name or under
\* "X"; the managers that hold it have made k0 custom ids.
CodecInit ==
    \E n \in Managers, identifier \in IdentifierArgs, k0 \in CounterStarts :
        LET rid == resolved_identifier(CodecClass, identifier)
            t == RegisterInto(Tables([m \in Managers |-> EmptyDict], [m \in Managers |-> EmptyDict],
                                     [m \in Managers |-> EmptyDict], [c \in Classes |-> None]),
                              n, CodecClass, rid, [name |-> CodecClass.mod, id |-> 1])
        IN  /\ sys_modules = [mod \in ModNames |-> Some(1)]
            /\ mod_gen = [mod \in ModNames |-> 1]
            /\ mod_ops = 0
            /\ _components = t.components
            /\ _identifiers = t.identifiers
            /\ _module_data = t.module_data
            /\ cls_manager = t.manager
            /\ last_op = [op |-> "register", mgr |-> n, cls |-> Some(CodecClass),
                          ident |-> Some(rid), outcome |-> "ok"]
            /\ reg_ops = 1
            /\ CfgInit
            /\ _counter = [m \in Managers |-> IF m \in RegisterTargets(n) THEN k0 ELSE 0]
            /\ made = NoMade
            /\ prev_id = None
            /\ codec_ops = 0
            /\ HookIdle /\ InvIdle /\ IntIdle /\ ParserIdle /\ ResolveIdle /\ BotIdle /\ TaskIdle /\ EventIdle /\ WrapIdle /\ GetIdle /\ MsgIdle

CodecNext ==
    \/ \E m \in Managers, count_arg \in CountArgs, sep_arg \in SepArgs :
            /\ codec_ops < MaxCodecOps
            /\ codec_ops' = codec_ops + 1
            /\ config(m, count_arg, sep_arg)
    \/ \E m \in Managers, params \in DumpedParams : make_custom_id(m, CodecClass, params)

SpecCodec == CodecInit /\ [][CodecNext]_vars

\* A class of module m1 was registered on manager n, under its class name
\* or under "X"; its module is still loaded, or was unloaded since.
InvokeInit ==
    \E n \in Managers, identifier \in IdentifierArgs, unloaded \in BOOLEAN :
        LET rid == resolved_identifier(CodecClass, identifier)
            t == RegisterInto(Tables([m \in Managers |-> EmptyDict], [m \in Managers |-> EmptyDict],
                                     [m \in Managers |-> EmptyDict], [c \in Classes |-> None]),
                              n, CodecClass, rid, [name |-> CodecClass.mod, id |-> 1])
        IN  /\ sys_modules = [mod \in ModNames |->
                                IF mod = CodecClass.mod /\ unloaded THEN None ELSE Some(1)]
            /\ mod_gen = [mod \in ModNames |-> 1]
            /\ mod_ops = IF unloaded THEN 1 ELSE 0
            /\ _components = t.components
            /\ _identifiers = t.identifiers
            /\ _module_data = t.module_data
            /\ cls_manager = t.manager
            /\ last_op = IF unloaded
                         THEN [NoOp EXCEPT !.op = "unload"]
                         ELSE [op |-> "register", mgr |-> n, cls |-> Some(CodecClass),
                               ident |-> Some(rid), outcome |-> "ok"]
            /\ reg_ops = 1
            /\ CfgInit /\ CodecIdle /\ HookIdle /\ IntIdle /\ ParserIdle /\ ResolveIdle /\ BotIdle /\ TaskIdle /\ EventIdle /\ WrapIdle /\ GetIdle /\ MsgIdle
            /\ inv = NoInv
            /\ log = <<>>
            /\ component_ctx \in PriorCtx

InvokeNext ==
    \/ \E m \in Managers : as_callback_wrapper(m)
    \/ \E m \in Managers : as_exception_handler(m)
    \/ \E self \in Managers, custom_id \in IncomingIds : invoke_component(self, custom_id)
    \/ enter_wrapper
    \/ enter_wrapper_raises
    \/ run_callback
    \/ run_callback_raises
    \/ exit_wrapper
    \/ exit_wrapper_suppresses
    \/ exit_wrapper_raises
    \/ call_handler
    \/ invoke_return

SpecInvoke == InvokeInit /\ [][InvokeNext]_vars

\* A class was registered as in InvokeInit, and no invocation is in
\* progress in the context the calls are made from.
MessageInit == InvokeInit /\ component_ctx = None

\* Interactions are handled with the managers' default hooks, and
\* parse_message_components is called at any point.
MessageNext ==
    \/ \E self \in Managers, custom_id \in IncomingIds : invoke_component(self, custom_id)
    \/ enter_wrapper
    \/ run_callback
    \/ run_callback_raises
    \/ exit_wrapper
    \/ call_handler
    \/ invoke_return
    \/ \E self \in Managers, message \in Messages : parse_message_components(self, message)

SpecMessage == MessageInit /\ [][MessageNext]_vars

\* An IntParser(signed=signed, base=base) and a value it accepts.
IntInit ==
    /\ RegInit /\ CfgInit /\ CodecIdle /\ HookIdle /\ InvIdle /\ ParserIdle /\ ResolveIdle /\ BotIdle /\ TaskIdle /\ EventIdle /\ WrapIdle /\ GetIdle /\ MsgIdle
    /\ \E signed \in BOOLEAN, base \in Bases :
        \E value \in Accepted(signed) :
            int_run = [NoIntRun EXCEPT !.pc = "start", !.signed = signed,
                                       !.base = base, !.value = value]

IntNext == IntDumps \/ IntLoads

SpecInt == IntInit /\ [][IntNext]_vars

\* The default IntParser: signed, base 36.
DefaultInt == IntParser(TRUE, 36)

\* The union parsers of the runs: Union[int, str], Union[str, int],
\* Optional[int], Optional[bool], Optional[str], Union[bool, int, None], and
\* unions with a sourced parser: one that raises before an IntParser,
\* one that may be cancelled before a StringParser and after an IntParser,
\* one that returns after a BoolParser.
UnionParsers ==
    << UnionParser(<<Some(DefaultInt), Some(StringParser)>>),
       UnionParser(<<Some(StringParser), Some(DefaultInt)>>),
       UnionParser(<<Some(DefaultInt), None>>),
       UnionParser(<<None, Some(BoolParser)>>),
       UnionParser(<<Some(StringParser), None>>),
       UnionParser(<<Some(BoolParser), Some(DefaultInt), None>>),
       UnionParser(<<Some(SourcedParser("sourced_raises")), Some(DefaultInt)>>),
       UnionParser(<<Some(SourcedParser("sourced_cancelled")), Some(StringParser)>>),
       UnionParser(<<Some(DefaultInt), None, Some(SourcedParser("sourced_cancelled"))>>),
       UnionParser(<<Some(BoolParser), Some(SourcedParser("sourced_returns"))>>) >>

\* The scalar values of the runs: 0, 5, -3, True, False, "", "5", "hi", None.
ScalarValues ==
    << IntVal(0), IntVal(5), IntVal(0 - 3), BoolVal(TRUE), BoolVal(FALSE),
       StrVal(<<>>), StrVal(<<53>>), StrVal(<<104, 105>>), NoneVal >>

\* The strings loaded directly: "", "5", "hi", "1,2", "1,2,3", " ".
GivenStrings ==
    << <<>>, <<53>>, <<104, 105>>, <<49, 44, 50>>, <<49, 44, 50, 44, 51>>, <<32>> >>

\* The tuple parsers of the runs: TupleParser() (one str), Tuple[str, int],
\* Tuple[int, int] with sep ";".
TupleParsers ==
    << TupleParser(<<>>, <<44>>),
       TupleParser(<<StringParser, DefaultInt>>, <<44>>),
       TupleParser(<<DefaultInt, DefaultInt>>, <<59>>) >>

\* The tuples of the runs: (), ("hi",), ("hi", 5), (5, 0), ("hi", 5, "5").
TupleValues ==
    << TupleVal(<<>>), TupleVal(<<StrVal(<<104, 105>>)>>),
       TupleVal(<<StrVal(<<104, 105>>), IntVal(5)>>),
       TupleVal(<<IntVal(5), IntVal(0)>>),
       TupleVal(<<StrVal(<<104, 105>>), IntVal(5), StrVal(<<53>>)>>) >>

\* The collection parsers of the runs: of str and of int, with sep "," and
\* with sep ";".
CollectionParsers ==
    << CollectionParser(StringParser, <<44>>), CollectionParser(DefaultInt, <<44>>),
       CollectionParser(StringParser, <<59>>), CollectionParser(DefaultInt, <<59>>) >>

\* The lists of the runs: [], ["hi"], ["hi", "5"], [5], [5, 0].
ListValues ==
    << ListVal(<<>>), ListVal(<<StrVal(<<104, 105>>)>>),
       ListVal(<<StrVal(<<104, 105>>), StrVal(<<53>>)>>),
       ListVal(<<IntVal(5)>>), ListVal(<<IntVal(5), IntVal(0)>>) >>

\* Every item is of the type the collection's inner parser is for.
CollectionAccepts(parser, value) ==
    \A k \in 1..Len(value.items) : value.items[k].t = parser.inner_parsers[1].kind

\* The value's runtime type is the declared type of an inner parser.
UnionAccepts(parser, value) ==
    \E i \in 1..Len(parser.inner_parsers) : parser.inner_parsers[i].kind = value.t

ParserInit ==
    /\ RegInit /\ CfgInit /\ CodecIdle /\ HookIdle /\ InvIdle /\ IntIdle /\ ResolveIdle /\ BotIdle /\ TaskIdle /\ EventIdle /\ WrapIdle /\ GetIdle /\ MsgIdle
    /\ \/ \E i \in 1..Len(UnionParsers), j \in 1..Len(ScalarValues) :
            /\ UnionAccepts(UnionParsers[i], ScalarValues[j])
            /\ parser_run = RoundTrip(UnionParsers[i], ScalarValues[j])
       \/ \E i \in 1..Len(UnionParsers), j \in 1..Len(GivenStrings) :
            parser_run = LoadGiven(UnionParsers[i], GivenStrings[j])
       \/ \E i \in 1..Len(TupleParsers), j \in 1..Len(TupleValues) :
            parser_run = RoundTrip(TupleParsers[i], TupleValues[j])
       \/ \E i \in 1..Len(TupleParsers), j \in 1..Len(GivenStrings) :
            parser_run = LoadGiven(TupleParsers[i], GivenStrings[j])
       \/ \E i \in 1..Len(CollectionParsers), j \in 1..Len(ListValues) :
            /\ CollectionAccepts(CollectionParsers[i], ListValues[j])
            /\ parser_run = RoundTrip(CollectionParsers[i], ListValues[j])
       \/ \E i \in 1..Len(CollectionParsers), j \in 1..Len(GivenStrings) :
            parser_run = LoadGiven(CollectionParsers[i], GivenStrings[j])

ParserNext == ParserDumps \/ ParserLoads

SpecParser == ParserInit /\ [][ParserNext]_vars

ResolveNext ==
    \/ \E parser \in ParserClasses, types \in TypeArgs, force \in BOOLEAN :
            register_parser(parser, types, force)
    \/ \E parser \in ParserClasses, types \in TypeArgs, priority \in PriorityArgs :
            register_parser_for(parser, types, priority)

SpecResolve == Idle /\ [][ResolveNext]_vars

BotNext ==
    \/ \E self \in Managers, b \in Bots : add_to_bot(self, b)
    \/ \E self \in Managers, b \in Bots : remove_from_bot(self, b)
    \/ \E self \in Managers : read_bot(self)

SpecBot == Idle /\ [][BotNext]_vars

\* The wrapper of a callback is about to be called with up to MaxArgs
\* positional arguments and up to two keyword arguments.
WrapInit ==
    /\ RegInit /\ CfgInit /\ CodecIdle /\ HookIdle /\ InvIdle /\ IntIdle /\ ParserIdle
    /\ ResolveIdle /\ BotIdle /\ TaskIdle /\ EventIdle /\ GetIdle /\ MsgIdle
    /\ \E n \in 0..MaxArgs, keys \in KeywordOrders :
        \E args \in [1..n -> ArgValues], values \in KwargsOf(keys) :
            wrap_run = [NoWrapRun EXCEPT !.args = args,
                                         !.kwargs = [keys |-> keys, values |-> values],
                                         !.outcome = "start"]

WrapNext == wrapper

SpecWrap == WrapInit /\ [][WrapNext]_vars

\* The bot that dispatches the interactions.
EventBots == {"b1"}

\* A class of module m1 was registered on some manager under its class
\* name and its module is loaded.
EventInit ==
    /\ MessageInit
    /\ sys_modules[CodecClass.mod] # None
    /\ make_identifier(CodecClass) \in DOMAIN _components[ROOT]

\* Managers are added to and removed from the bot, and the bot dispatches
\* interactions on components of the registered class.
EventNext ==
    \/ \E self \in Managers, b \in EventBots : add_to_bot(self, b)
    \/ \E self \in Managers, b \in EventBots : remove_from_bot(self, b)
    \/ \E b \in EventBots, custom_id \in IncomingIds : dispatch(b, custom_id)
    \/ deliver

SpecEvent == EventInit /\ [][EventNext]_vars

\* Classes are registered and custom ids are made for components of the
\* registered classes, each on the manager that owns its class.
MakeNext ==
    \/ \E m \in Managers, c \in Classes, identifier \in IdentifierArgs :
            register_component(m, c, identifier)
    \/ \E c \in Classes, params \in {<<>>, <<<<55>>>>} :
            /\ cls_manager[c] # None
            /\ make_custom_id(The(cls_manager[c]), c, params)

SpecMake == Idle /\ [][MakeNext]_vars

\* Up to MaxTasks make_custom_id calls for components of CodecClass run as
\* tasks, on the manager the class is registered on or on the root.
TaskNext ==
    \/ \E t \in TaskIds, m \in {The(cls_manager[CodecClass]), ROOT} : task_start(t, m, CodecClass)
    \/ \E t \in TaskIds : task_resume(t)

SpecTasks == CodecInit /\ [][TaskNext]_vars

\* The annotations of the get_parser runs: Optional[int], Optional[str],
\* Optional[bool], Union[None, int], Union[int, str], Union[str, int],
\* Union[bool, int, None].
UnionAnnotations ==
    { Union(<<"int", "NoneType">>), Union(<<"str", "NoneType">>), Union(<<"bool", "NoneType">>),
      Union(<<"NoneType", "int">>), Union(<<"int", "str">>), Union(<<"str", "int">>),
      Union(<<"bool", "int", "NoneType">>) }

\* builtins.py has been imported: the scalar parsers and UnionParser are
\* registered. get_parser is about to be called with a Union annotation.
GetInit ==
    /\ RegInit /\ CfgInit /\ CodecIdle /\ HookIdle /\ InvIdle /\ IntIdle /\ ParserIdle
    /\ BotIdle /\ TaskIdle /\ EventIdle /\ WrapIdle /\ MsgIdle
    /\ _REV_PARSERS = BuiltinRegistrations
    /\ _PARSERS = [t \in {"NoneType", "int", "bool", "str", "Union"} |->
                    (CHOOSE r \in Range(BuiltinRegistrations) : t \in Range(r.types)).parser]
    /\ parser_calls = <<>>
    /\ \E type_ \in UnionAnnotations : get_run = [NoGetRun EXCEPT !.pc = "start", !.type_ = type_]

GetNext ==
    \/ GetParser
    \/ \E j \in 1..Len(GivenStrings) : GetLoads(GivenStrings[j])
    \/ \E j \in 1..Len(ScalarValues) : GetDumps(ScalarValues[j])

SpecGet == GetInit /\ [][GetNext]_vars

\* ------------------------------------------------------- dispatch claims

\* The chain root ... n by name: the root, then the dotted prefixes of n's
\* name from the shortest to n itself.
RootToLeaf(n) ==
    IF n = ROOT THEN <<ROOT>>
    ELSE <<ROOT>> \o [i \in 1..Len(n) |-> SubSeq(n, 1, i)]

\* The chain n ... root by name.
LeafToRoot(n) ==
    IF n = ROOT THEN <<ROOT>>
    ELSE [i \in 1..Len(n) |-> SubSeq(n, 1, Len(n) + 1 - i)] \o <<ROOT>>

\* The manager that owns the component being invoked.
Owner == The(cls_manager[The(inv.comp)])

\* The events of the given kinds in the log, in order.
EventsOf(kinds) ==
    LET OfKind(e) == e.ev \in kinds IN SelectSeq(log, OfKind)

MgrsOf(events) == [i \in 1..Len(events) |-> events[i].mgr]

IsPrefix(a, b) == Len(a) <= Len(b) /\ a = SubSeq(b, 1, Len(a))

EventsFor(ev, mgrs) == [i \in 1..Len(mgrs) |-> Event(ev, mgrs[i], "")]

NothingRaised ==
    EventsOf({"enter_raised", "callback_raised", "exit_raised", "exit_suppressed"}) = <<>>

\* C1: the wrappers entered so far are, in order, the first managers of the
\* chain root ... m of the component's owning manager m; when the callback
\* has run, the log starts with the enter of every wrapper of the chain from
\* the root to m, followed by the callback; and a call that ended without
\* any raise logged exactly: the enters root to m, the callback, the exits m
\* to root.
C1_WrapperOrder ==
    inv.comp # None =>
        LET chain == RootToLeaf(Owner)
            k == Len(chain)
        IN  /\ IsPrefix(MgrsOf(EventsOf({"enter"})), chain)
            /\ EventsOf({"callback", "callback_raised"}) # <<>> =>
                    /\ Len(log) > k
                    /\ SubSeq(log, 1, k) = EventsFor("enter", chain)
                    /\ log[k + 1].ev \in {"callback", "callback_raised"}
                    /\ Len(EventsOf({"callback", "callback_raised"})) = 1
            /\ (inv.pc = "done" /\ NothingRaised) =>
                    log = EventsFor("enter", chain)
                          \o <<Event("callback", Owner, "")>>
                          \o EventsFor("exit", LeafToRoot(Owner))

\* The managers root, "a" and "a.b" have wrappers of their own, and the call
\* for a component of "a.b" ended with the log root-enter, a-enter,
\* a.b-enter, callback, a.b-exit, a-exit, root-exit.
C1_Witness ==
    /\ inv.pc = "done"
    /\ inv.comp # None
    /\ \A m \in {ROOT, <<"a">>, <<"a", "b">>} : wrap_callback[m] = "custom"
    /\ log = << Event("enter", ROOT, ""), Event("enter", <<"a">>, ""),
                Event("enter", <<"a", "b">>, ""), Event("callback", <<"a", "b">>, ""),
                Event("exit", <<"a", "b">>, ""), Event("exit", <<"a">>, ""),
                Event("exit", ROOT, "") >>

\* The call ended and an exception raised by a wrapper or by the callback
\* left the exit stack.
Escaped ==
    /\ inv.pc = "done"
    /\ inv.comp # None
    /\ inv.exc # None

\* The exception that left the exit stack was an instance of Exception (a
\* handler that raised was called for one).
EscapedException ==
    /\ Escaped
    /\ \/ The(inv.exc).raised_by = "handler"
       \/ The(inv.exc).kind = "Exception"

HandlersWalk ==
    LET chain == LeafToRoot(Owner)
        handles == EventsOf({"handle"})
    IN  /\ IsPrefix(MgrsOf(handles), chain)
        /\ \A i \in 1..(Len(handles) - 1) : handles[i].res \in {"False", "None"}

HandlersWalkedToEnd ==
    LET chain == LeafToRoot(Owner)
        handles == EventsOf({"handle"})
    IN  /\ handles # <<>>
        /\ handles[Len(handles)].res \in {"False", "None"} => Len(handles) = Len(chain)

\* C2 as stated: whenever an exception leaves the wrapped invocation of a
\* component owned by m, the handlers called are those of m, m's parent, ...
\* in that order, none is called after one that returned a truthy value, and
\* the walk ends only at a truthy result or after the root's handler.
C2_HandlerOrder_AnyException ==
    inv.comp # None =>
        /\ HandlersWalk
        /\ Escaped => HandlersWalkedToEnd

\* C2, amended: the same for an exception that is an instance of Exception;
\* an exception that is not one reaches no handler.
C2_HandlerOrder ==
    inv.comp # None =>
        /\ HandlersWalk
        /\ EscapedException => HandlersWalkedToEnd
        /\ (Escaped /\ ~ EscapedException) => EventsOf({"handle"}) = <<>>

\* For a component of "a.b" the handler of "a.b" returned None, that of "a"
\* False, and the root's handler ended the walk with True.
C2_Witness ==
    /\ EscapedException
    /\ Owner = <<"a", "b">>
    /\ EventsOf({"handle"}) = << Event("handle", <<"a", "b">>, "None"),
                                 Event("handle", <<"a">>, "False"),
                                 Event("handle", ROOT, "True") >>

DefaultHandlersOnChain ==
    \A m \in Range(inv.managers) : handle_exception[m] = "default"

\* C3 as stated: when an exception raised by a wrapper or by the callback
\* left the exit stack, the call returns normally; with the default handler
\* on every manager of the chain the exception is logged once, by the root.
C3_NeverPropagates_AnyException ==
    (Escaped /\ The(inv.exc).raised_by \in {"enter", "exit", "callback"}) =>
        /\ inv.result = "returned"
        /\ DefaultHandlersOnChain => MgrsOf(EventsOf({"logged"})) = <<ROOT>>

\* C3, amended: when the exception that left the exit stack is an instance
\* of Exception, the call returns normally whatever the handlers return, and
\* with the default handler on every manager of the chain it is logged once,
\* by the root; a call raises only an exception that is not an instance of
\* Exception, or the exception of a handler or of the parse.
C3_NeverPropagates ==
    /\ (Escaped /\ The(inv.exc).raised_by \in {"enter", "exit", "callback"}
               /\ The(inv.exc).kind = "Exception") =>
            /\ inv.result = "returned"
            /\ DefaultHandlersOnChain => MgrsOf(EventsOf({"logged"})) = <<ROOT>>
    /\ (inv.pc = "done" /\ inv.result = "raised") =>
            \/ The(inv.exc).raised_by \in {"handler", "parse"}
            \/ The(inv.exc).kind = "BaseException"
    /\ EventsOf({"logged"}) # <<>> => MgrsOf(EventsOf({"logged"})) = <<ROOT>>

\* The wrapper of "a" raised an Exception on exit for a component of "a.b";
\* every handler is the default one, the root logged, the call returned.
C3_Witness ==
    /\ Escaped
    /\ Owner = <<"a", "b">>
    /\ inv.exc = Some(Raised("exit", <<"a">>, "Exception"))
    /\ DefaultHandlersOnChain
    /\ inv.result = "returned"
    /\ MgrsOf(EventsOf({"handle"})) = << <<"a", "b">>, <<"a">>, ROOT >>
    /\ MgrsOf(EventsOf({"logged"})) = <<ROOT>>

\* C11: while the wrappers, the callback or the handlers of a call run,
\* _COMPONENT_CTX holds the component being invoked; when the call has ended
\* (callback returned, exception handled by some handler or by none, a
\* handler raised, or an exception that is no Exception left the call) the
\* variable holds what it held before the call set it.
C11_ContextRestored ==
    /\ inv.pc \in {"enter", "callback", "exit", "handle"} =>
            /\ component_ctx # None
            /\ The(component_ctx).component = The(inv.comp)
    /\ (inv.pc = "done" /\ inv.comp # None) => component_ctx = inv.token
    /\ inv.pc \in {"idle", "done"} => component_ctx \in PriorCtx
    /\ inv.token \in PriorCtx

\* A handler raised during a dispatch nested in another one: the call
\* raised and the variable holds the outer dispatch's component again.
C11_Witness ==
    /\ inv.pc = "done"
    /\ inv.result = "raised"
    /\ inv.exc # None
    /\ The(inv.exc).raised_by = "handler"
    /\ inv.token # None
    /\ component_ctx = inv.token

\* A wrapper raised while it was being entered, in the call in flight.
EnterRaised == EventsOf({"enter_raised"}) # <<>>

\* The exception the wrapper raised on entry.
EnterException ==
    LET e == EventsOf({"enter_raised"})[1] IN Raised("enter", e.mgr, e.res)

\* The wrappers entered before the raise, most recently entered first.
EnteredReversed ==
    LET entered == MgrsOf(EventsOf({"enter"}))
    IN  [i \in 1..Len(entered) |-> entered[Len(entered) + 1 - i]]

ExitKinds == {"exit", "exit_suppressed", "exit_raised"}

\* After a raise on entry: the callback is not invoked, the wrapper that
\* raised is the one after the wrappers entered and no wrapper nearer the
\* leaf is entered, and the wrappers entered are exited once each, the most
\* recently entered first, all of them before the call goes on.
EnterRaiseUnwinds ==
    LET chain == RootToLeaf(Owner)
        entered == MgrsOf(EventsOf({"enter"}))
        exited == MgrsOf(EventsOf(ExitKinds))
    IN  /\ EventsOf({"callback", "callback_raised"}) = <<>>
        /\ Len(EventsOf({"enter_raised"})) = 1
        /\ IsPrefix(entered, chain)
        /\ Len(entered) < Len(chain)
        /\ EventsOf({"enter_raised"})[1].mgr = chain[Len(entered) + 1]
        /\ IsPrefix(exited, EnteredReversed)
        /\ inv.pc \in {"handle", "done"} => exited = EnteredReversed
        /\ inv.pc = "exit" => Len(exited) = Len(entered) - inv.entered

\* C21 as stated: after a wrapper raised on entry the entered wrappers are
\* exited, each receiving that exception, and the exception is then offered
\* to the handlers, the first being that of the component's owning manager.
C21_EnterRaise_AnyOutcome ==
    (inv.comp # None /\ EnterRaised) =>
        /\ EnterRaiseUnwinds
        /\ inv.pc = "exit" => inv.exc = Some(EnterException)
        /\ inv.pc \in {"handle", "done"} =>
                \/ inv.pc = "handle" /\ inv.handler = 1
                \/ /\ EventsOf({"handle"}) # <<>>
                   /\ EventsOf({"handle"})[1].mgr = Owner

\* C21, amended: after a wrapper raised on entry, the callback is not
\* invoked, no wrapper nearer the leaf is entered, and the entered wrappers
\* are exited once each, most recently entered first; each receives the
\* exception raised unless a wrapper exited before it suppressed it or raised
\* another; the exception that leaves the exit stack, when there is one and
\* it is an instance of Exception, is offered to the handlers starting from
\* the component's owning manager; otherwise no handler is called.
C21_EnterRaise ==
    (inv.comp # None /\ EnterRaised) =>
        /\ EnterRaiseUnwinds
        /\ (inv.pc = "exit" /\ EventsOf({"exit_suppressed", "exit_raised"}) = <<>>)
                => inv.exc = Some(EnterException)
        /\ EventsOf({"handle"}) # <<>> => EventsOf({"handle"})[1].mgr = Owner
        /\ inv.pc = "handle" => (inv.exc # None /\ Caught(The(inv.exc)))
        /\ inv.pc = "done" =>
                IF EscapedException
                THEN EventsOf({"handle"}) # <<>>
                ELSE EventsOf({"handle"}) = <<>>

\* The wrapper of "a.b" raised an Exception on entry after the wrappers of
\* the root and of "a" were entered: "a" was exited, then the root, and the
\* handlers were called from "a.b" on.
C21_Witness ==
    /\ inv.pc = "done"
    /\ inv.comp # None
    /\ Len(log) > 5
    /\ SubSeq(log, 1, 5) = << Event("enter", ROOT, ""), Event("enter", <<"a">>, ""),
                              Event("enter_raised", <<"a", "b">>, "Exception"),
                              Event("exit", <<"a">>, ""), Event("exit", ROOT, "") >>
    /\ log[6] = Event("handle", <<"a", "b">>, "False")

\* The identifier the class of the last deregistration was registered under.
StaleIdentifier ==
    LET c == The(last_op.cls) IN _identifiers[The(cls_manager[c])][c.name]

\* C19: when the incoming custom id matches an identifier whose module
\* snapshot is no longer active, invoke_component returns normally, no
\* wrapper is entered, the callback is not invoked, no exception handler is
\* called, and the identifier is gone from the registry of the owning
\* manager and of each of its ancestors.
C19_StaleEntryDropped ==
    (inv.pc = "done" /\ last_op.op = "deregister") =>
        /\ inv.result = "unmatched"
        /\ log = <<>>
        /\ \A m \in Range(_recurse_parents(The(cls_manager[The(last_op.cls)]))) :
                StaleIdentifier \notin DOMAIN _components[m]


\* The components the last parse_message_components call placed, in reading
\* order.
Placed == IF Len(parsed.rows) = 1 THEN parsed.rows[1] ELSE parsed.rows[1] \o parsed.rows[2]

\* The call was made while the callback of an invocation ran, and returned.
ParsedInCallback == parsed.during = "callback" /\ parsed.outcome = "returned"

\* The call was made outside any invocation, and returned.
ParsedOutside == parsed.during \in {"idle", "done"} /\ parsed.outcome = "returned"

\* The first position of the message that holds the given custom id, 0
\* when none does.
FirstPosition(ids, custom_id) ==
    IF \E p \in 1..Len(ids) : ids[p] = custom_id
    THEN CHOOSE p \in 1..Len(ids) :
            ids[p] = custom_id /\ \A q \in 1..(p - 1) : ids[q] # custom_id
    ELSE 0

\* One component per position, in the rows of the message; every object
\* but the substituted one was made by the call, one per position.
PlacedAfresh(first) ==
    /\ Len(Placed) = Len(parsed.message.ids)
    /\ parsed.rows = Rows(Placed, parsed.message.cut)
    /\ \A p \in 1..Len(Placed) :
            /\ Placed[p].custom_id = parsed.message.ids[p]
            /\ Placed[p].obj = 0 <=> p = first
            /\ p = first => Placed[p].rich
    /\ \A p, q \in 1..Len(Placed) : Placed[p].obj = Placed[q].obj => p = q

\* The sequence of rich components holds the rich components of the rows,
\* the same objects in the same order.
SameInstances == parsed.rich_components = RichOf(Placed)

\* C27: a parse_message_components call made while a component callback
\* runs puts the instance being invoked at the first position whose custom
\* id is that of the incoming interaction and a component parsed afresh at
\* every other position, later ones with that custom id included; the rows
\* and the sequence of rich components hold the same instances; a call made
\* outside any invocation substitutes nowhere.
C27_InvokedInstanceSubstitutedOnce ==
    /\ ParsedInCallback =>
            /\ parsed.ctx # None
            /\ The(parsed.ctx).component = The(parsed.comp)
            /\ PlacedAfresh(FirstPosition(parsed.message.ids, The(parsed.ctx).custom_id))
            /\ SameInstances
    /\ ParsedOutside => PlacedAfresh(0) /\ SameInstances

\* During the callback for "C\x00|7" a message with that custom id at
\* positions 2 and 3, after "X\x00", was parsed on the root: the instance
\* being invoked is at position 2 and a fresh one at position 3.
C27_Witness ==
    /\ ParsedInCallback
    /\ parsed.self = ROOT
    /\ parsed.message = [ids |-> <<<<88, 0>>, <<67, 0, 124, 55>>, <<67, 0, 124, 55>>>>, cut |-> 1]
    /\ parsed.rows = << <<Parsed(FALSE, <<88, 0>>, 1)>>,
                        <<Parsed(TRUE, <<67, 0, 124, 55>>, 0),
                          Parsed(TRUE, <<67, 0, 124, 55>>, 2)>> >>
    /\ parsed.rich_components = <<Parsed(TRUE, <<67, 0, 124, 55>>, 0),
                                  Parsed(TRUE, <<67, 0, 124, 55>>, 2)>>
\* -------------------------------------------------------- parser claims

\* C12: for every UnionParser and every value whose runtime type is the
\* declared type of one of its inner parsers (None for an optional union),
\* dumps returns a string and loads of that string returns the value.
C12_UnionRoundTrip ==
    (parser_run.parser.kind = "union" /\ ~ parser_run.given) =>
        /\ parser_run.pc \in {"dumped", "loaded"} => ~ parser_run.dumped.raised
        /\ parser_run.pc = "loaded" =>
                /\ ~ parser_run.loaded.raised
                /\ parser_run.loaded.out = parser_run.value

\* C13: for every CollectionParser and every collection of values its inner
\* parser accepts, the empty collection included, dumps returns a string
\* and loads of that string returns the collection.
C13_CollectionRoundTrip ==
    (parser_run.parser.kind = "collection" /\ ~ parser_run.given) =>
        /\ parser_run.pc \in {"dumped", "loaded"} => ~ parser_run.dumped.raised
        /\ parser_run.pc = "loaded" =>
                /\ ~ parser_run.loaded.raised
                /\ parser_run.loaded.out = parser_run.value

\* The positions 1..n in order.
Positions(n) == [k \in 1..n |-> k]

\* C14: a TupleParser with N inner parsers raises on loads of a string that
\* its separator splits into a number of parts other than N and on dumps of
\* a tuple whose length is not N, calling no inner parser; when the numbers
\* match, inner parser k is called for part k (element k), for k = 1..N in
\* order up to the first that raises, and the result holds at position k
\* what inner parser k returned.
C14_TupleArity ==
    parser_run.parser.kind = "tuple" =>
        LET parser == parser_run.parser
            N == Len(parser.inner_parsers)
            items == parser_run.value.items
            parts == Split(parser_run.dumped.out, parser.sep)
            dumped == parser_run.dumped
            loaded == parser_run.loaded
        IN  /\ (parser_run.pc \in {"dumped", "loaded"} /\ ~ parser_run.given) =>
                IF Len(items) # N
                THEN dumped.raised /\ dumped.calls = <<>>
                ELSE /\ IsPrefix(dumped.calls, Positions(N))
                     /\ dumped.raised =
                            (\E k \in 1..N : ScalarDumps(parser.inner_parsers[k], items[k]).raised)
                     /\ ~ dumped.raised =>
                            /\ dumped.calls = Positions(N)
                            /\ dumped.out = Join([k \in 1..N |->
                                    ScalarDumps(parser.inner_parsers[k], items[k]).out],
                                    parser.sep)
            /\ parser_run.pc = "loaded" =>
                IF Len(parts) # N
                THEN loaded.raised /\ loaded.calls = <<>>
                ELSE /\ IsPrefix(loaded.calls, Positions(N))
                     /\ loaded.raised =
                            (\E k \in 1..N : ScalarLoads(parser.inner_parsers[k], parts[k]).raised)
                     /\ ~ loaded.raised =>
                            /\ loaded.calls = Positions(N)
                            /\ loaded.out = TupleVal([k \in 1..N |->
                                    ScalarLoads(parser.inner_parsers[k], parts[k]).out])

\* Tuple[str, int] was given "1,2,3", which "," splits into three parts:
\* loads raised and called no inner parser.
C14_Witness ==
    /\ parser_run.pc = "loaded"
    /\ parser_run.parser = TupleParser(<<StringParser, IntParser(TRUE, 36)>>, <<44>>)
    /\ parser_run.dumped.out = <<49, 44, 50, 44, 51>>
    /\ parser_run.loaded = Result(TRUE, NoneVal, <<>>)

\* C15: an optional UnionParser loads "" to None and dumps None to "", and
\* calls no inner parser for either.
C15_OptionalQuickReturn ==
    (parser_run.parser.kind = "union" /\ parser_run.parser.optional) =>
        /\ (parser_run.pc = "loaded" /\ parser_run.dumped.out = <<>>) =>
                parser_run.loaded = Result(FALSE, NoneVal, <<>>)
        /\ (parser_run.pc \in {"dumped", "loaded"} /\ ~ parser_run.given
                /\ parser_run.value = NoneVal) =>
                parser_run.dumped = Result(FALSE, <<>>, <<>>)

\* Optional[int] dumped None to "" and loaded it back to None; no inner
\* parser was called.
C15_Witness ==
    /\ parser_run.parser = UnionParser(<<Some(IntParser(TRUE, 36)), None>>)
    /\ parser_run.pc = "loaded"
    /\ ~ parser_run.given
    /\ parser_run.value = NoneVal
    /\ parser_run.dumped = Result(FALSE, <<>>, <<>>)
    /\ parser_run.loaded = Result(FALSE, NoneVal, <<>>)

\* A loads of a union parser that went into the loop over the inner
\* parsers: it was not answered by the quick return of an optional union.
UnionLoopRan ==
    /\ parser_run.pc = "loaded"
    /\ parser_run.parser.kind = "union"
    /\ ~ (parser_run.dumped.out = <<>> /\ parser_run.parser.optional)

\* What inner parser i of the run's union parser does with the argument.
InnerLoads(i) == ScalarLoads(parser_run.parser.inner_parsers[i], parser_run.dumped.out)

\* The inner parsers were called in their order, one after the other, each
\* one only after all before it had raised.
TriedInOrder ==
    LET calls == parser_run.loaded.calls IN
    /\ Len(calls) \in 1..Len(parser_run.parser.inner_parsers)
    /\ calls = Positions(Len(calls))
    /\ \A i \in 1..(Len(calls) - 1) : InnerLoads(i).raised

\* A loads that returned, returned what the last inner parser it called
\* returned.
FirstSuccessReturned ==
    ~ parser_run.loaded.raised =>
        LET last == InnerLoads(Len(parser_run.loaded.calls)) IN
        ~ last.raised /\ parser_run.loaded.out = last.out

\* The loads raised its own RuntimeError, after every inner parser raised.
RaisedRuntimeError ==
    /\ parser_run.loaded.out = NoneVal
    /\ Len(parser_run.loaded.calls) = Len(parser_run.parser.inner_parsers)
    /\ \A i \in 1..Len(parser_run.parser.inner_parsers) : InnerLoads(i).raised

\* The loads let through the exception of the last inner parser it called,
\* and that exception is not an Exception.
LetThroughNonException ==
    LET last == InnerLoads(Len(parser_run.loaded.calls)) IN
    /\ last.raised
    /\ last.out = CancelledError
    /\ parser_run.loaded.out = CancelledError

\* In an optional union the none parser is the last inner parser, and the
\* only none parser.
NoneParserLast ==
    (parser_run.parser.kind = "union" /\ parser_run.parser.optional) =>
        LET inner == parser_run.parser.inner_parsers IN
        \A i \in 1..Len(inner) : inner[i].kind = "NoneType" <=> i = Len(inner)

\* C26 as stated: UnionParser.loads tries the inner parsers in order,
\* returns the first result obtained without an exception, never lets an
\* inner parser's exception through and raises its RuntimeError only after
\* every inner parser raised; the none parser of an optional union is last.
C26_UnionTriesInOrder_NeverPropagates ==
    /\ NoneParserLast
    /\ UnionLoopRan =>
            /\ TriedInOrder
            /\ FirstSuccessReturned
            /\ parser_run.loaded.raised => RaisedRuntimeError

\* C26, amended: UnionParser.loads tries the inner parsers in order,
\* returns the first result obtained without an exception, lets through
\* no exception of an inner parser that is an Exception (one that is not,
\* such as asyncio.CancelledError, ends the call at that parser) and raises
\* its RuntimeError only after every inner parser raised; the none parser of
\* an optional union is last.
C26_UnionTriesInOrder ==
    /\ NoneParserLast
    /\ UnionLoopRan =>
            /\ TriedInOrder
            /\ FirstSuccessReturned
            /\ parser_run.loaded.raised =>
                    RaisedRuntimeError \/ LetThroughNonException

\* Union[sourced, int], whose sourced parser raises a ValueError, was given
\* "5": the int parser was called second and its 5 returned.
C26_Witness ==
    /\ parser_run.pc = "loaded"
    /\ parser_run.parser =
            UnionParser(<<Some(SourcedParser("sourced_raises")), Some(IntParser(TRUE, 36))>>)
    /\ parser_run.dumped.out = <<53>>
    /\ parser_run.loaded = Result(FALSE, IntVal(5), <<1, 2>>)

\* The priority a registration call names: 0 when it names none.
PriorityOf(call) == IF call.priority = None THEN 0 ELSE The(call.priority)

\* C16: when two parser classes were registered, each in one call, for types
\* a queried type is a subclass of, the queried type itself having no
\* entry, the resolver returns the class whose call named the strictly
\* greater priority, whichever call came first.
C16_PriorityDecides ==
    \A type_ \in Types, i \in 1..Len(parser_calls), j \in 1..Len(parser_calls) :
        LET high == parser_calls[i]
            low == parser_calls[j]
        IN  (/\ Len(parser_calls) = 2
             /\ high.parser # low.parser
             /\ PriorityOf(high) > PriorityOf(low)
             /\ type_ \notin Range(high.types) \cup Range(low.types)
             /\ _issubclass(type_, high.types)
             /\ _issubclass(type_, low.types))
            => _get_parser_type(type_) = Some(high.parser)

\* What P.default_types() reports for parser class P; nothing (KeyError)
\* for a class that was never registered.
ReportedTypes(parser) ==
    IF RevIndex(_REV_PARSERS, parser) = 0 THEN {}
    ELSE Range(_REV_PARSERS[RevIndex(_REV_PARSERS, parser)].types)

\* C29: after any sequence of register_parser calls a type resolves by
\* exact lookup to a parser class exactly when the type is among the types
\* the class's default_types() reports.
C29_ForwardAndReverseAgree ==
    \A t \in Types, parser \in ParserClasses :
        (t \in DOMAIN _PARSERS /\ _PARSERS[t] = parser) <=> t \in ReportedTypes(parser)

\* ------------------------------------------------------- wrapper claims

\* The arguments with the one at position p replaced by its wrapped form.
WithWrapped(arguments, p) == [arguments EXCEPT ![p] = wrap_interaction(@)]

\* The first two positional arguments of the run.
FirstTwo == SubSeq(wrap_run.args, 1, IF Len(wrap_run.args) < 2 THEN Len(wrap_run.args) ELSE 2)

\* C30: the wrapper calls the callback with the positional and keyword
\* arguments it received, the interaction found among the first two
\* positional arguments, else among the keyword arguments, replaced by its
\* wrapped form; when there is none it raises TypeError and does not call
\* the callback.
C30_ArgumentsPassedThrough ==
    wrap_run.outcome \notin {"none", "start"} =>
        IF FirstInteraction(FirstTwo) # 0
        THEN /\ wrap_run.outcome = "called"
             /\ wrap_run.new_args = WithWrapped(wrap_run.args, FirstInteraction(FirstTwo))
             /\ wrap_run.new_kwargs = wrap_run.kwargs
        ELSE IF FirstInteraction(wrap_run.kwargs.values) # 0
        THEN /\ wrap_run.outcome = "called"
             /\ wrap_run.new_args = wrap_run.args
             /\ wrap_run.new_kwargs =
                    [wrap_run.kwargs EXCEPT
                        !.values = WithWrapped(@, FirstInteraction(wrap_run.kwargs.values))]
        ELSE wrap_run.outcome = "TypeError"

\* ------------------------------------------------------------- bot claims

Occurrences(listeners, self) == Cardinality({k \in 1..Len(listeners) : listeners[k] = self})

\* A manager's entrypoint is a listener of a bot at most once.
ListenerAtMostOnce ==
    \A self \in Managers, b \in Bots : Occurrences(extra_events[b], self) <= 1

\* add_to_bot on a manager already listening on the bot raises and leaves
\* the bot's listeners as they are.
AddTwiceRaises ==
    \A self \in Managers, b \in Bots :
        (add_to_bot(self, b) /\ self \in Range(extra_events[b]))
            => /\ last_bot_op'.outcome = "RuntimeError"
               /\ extra_events' = extra_events

\* remove_from_bot on a manager not listening on the bot raises.
RemoveAbsentRaises ==
    \A self \in Managers, b \in Bots :
        (remove_from_bot(self, b) /\ self \notin Range(extra_events[b]))
            => /\ last_bot_op'.outcome = "RuntimeError"
               /\ extra_events' = extra_events

\* C17: add_to_bot on a manager whose entrypoint is already a listener of
\* the bot raises RuntimeError and adds no second listener; remove_from_bot
\* on a manager whose entrypoint is not a listener of the bot raises
\* RuntimeError; so a manager's entrypoint is a listener of a given bot at
\* most once, whatever the sequence of calls.
C17_RegisteredAtMostOnce ==
    /\ []ListenerAtMostOnce
    /\ [][AddTwiceRaises /\ RemoveAbsentRaises]_vars

\* add_to_bot was called on a manager already listening on that bot, after
\* some other manager was added to the same bot.
C17_Witness ==
    /\ last_bot_op.op = "add_to_bot"
    /\ last_bot_op.outcome = "RuntimeError"
    /\ Len(extra_events[The(last_bot_op.bot)]) = 2
    /\ last_bot_op.manager \in Range(extra_events[The(last_bot_op.bot)])

\* The managers of the chain self ... root that add_to_bot has given a bot.
AddedOnChain(self) ==
    LET chain == _recurse_parents(self) IN {k \in 1..Len(chain) : chain[k] \in DOMAIN _bot}

\* C18: the bot property is resolved through the ancestors: it returns the
\* bot of the nearest manager on the chain from the manager to the root that
\* was added to a bot, and raises RuntimeError when none was.
C18_BotThroughAncestors ==
    last_bot_op.op = "bot" =>
        LET self == last_bot_op.manager
            chain == _recurse_parents(self)
            added == AddedOnChain(self)
        IN  IF added = {}
            THEN last_bot_op.outcome = "RuntimeError"
            ELSE /\ last_bot_op.outcome = "returned"
                 /\ last_bot_op.value =
                        _bot[chain[CHOOSE k \in added : \A j \in added : k <= j]]


\* C25: get_parser of Optional[T] returns a UnionParser whose optional flag
\* is set and whose inner parsers are the parser of T and then one strict
\* NoneParser, so that loads("") returns None and dumps(None) returns ""
\* without calling an inner parser.
C25_OptionalAnnotationIsOptional ==
    (/\ get_run.pc = "got"
     /\ Len(get_run.type_.args) = 2
     /\ get_run.type_.args[1] # "NoneType"
     /\ get_run.type_.args[2] = "NoneType")
    => /\ get_run.parser.optional
       /\ get_run.parser.inner_parsers =
                << get_parser(Class(get_run.type_.args[1])), NoneParser(TRUE) >>
       /\ get_run.argument = Some(<<>>) => get_run.loaded = Result(FALSE, NoneVal, <<>>)
       /\ get_run.value = Some(NoneVal) => get_run.dumped = Result(FALSE, <<>>, <<>>)


\* C28: one interaction makes the callback of the component it matches run
\* at most once, however many managers of the class's ancestor chain were
\* added to the bot.
C28_CallbackRunsAtMostOnce == callback_runs <= 1
\* ----------------------------------------------------- IntParser claims

\* C8: for every IntParser with a base in 2..36 and every value it accepts,
\* loads(dumps(value)) returns the value.
C8_IntRoundTrip ==
    int_run.pc = "loaded" =>
        /\ ~ int_run.loaded.raised
        /\ int_run.loaded.value = int_run.value

\* ------------------------------------------------------- registry claims

\* The managers on the path from n to the root, by name: n itself, every
\* manager whose name is a proper dotted prefix of n's, and the root.
OnPathToRoot(n) ==
    {k \in Managers : k = ROOT \/ (Len(k) <= Len(n) /\ SubSeq(n, 1, Len(k)) = k)}

\* The snapshot (module name, module object id) of class c's module now.
SnapshotOf(c) == [name |-> c.mod, id |-> The(sys_modules[c.mod])]

RegistryTablesUnchanged ==
    UNCHANGED <<_components, _module_data, _identifiers, cls_manager>>

\* C4: register_component for an identifier already in the root's registry
\* raises RuntimeError when the new class's module has another name than the
\* recorded one or the same name and the same module object; when it is a
\* reload (same name, another module object) the call succeeds and the root
\* records the new class and the new snapshot.
C4_DuplicateOrReload ==
    [][ LET op == last_op' IN
        (/\ op.op = "register"
         /\ op.outcome # "KeyError"
         /\ The(op.ident) \in DOMAIN _components[ROOT])
        => LET c == The(op.cls)
               rid == The(op.ident)
               old == _module_data[ROOT][rid]
               new == SnapshotOf(c)
           IN  IF new.name = old.name /\ new.id # old.id
               THEN /\ op.outcome = "ok"
                    /\ _components'[ROOT][rid] = c
                    /\ _module_data'[ROOT][rid] = new
               ELSE /\ op.outcome = "RuntimeError"
                    /\ RegistryTablesUnchanged
      ]_vars

\* A reload overwrite happened: the root records the reloaded class under an
\* identifier that a manager off the new chain still maps to the old class.
C4_Witness ==
    /\ last_op.op = "register"
    /\ last_op.outcome = "ok"
    /\ LET c == The(last_op.cls)
           rid == The(last_op.ident)
       IN  /\ c.gen = 2
           /\ _components[ROOT][rid] = c
           /\ _module_data[ROOT][rid] = [name |-> c.mod, id |-> 2]
           /\ \E n \in Managers :
                /\ rid \in DOMAIN _components[n]
                /\ _components[n][rid] = [c EXCEPT !.gen = 1]

\* C5: after a successful register_component(C, identifier=i) on manager n,
\* i maps to C and to C's module snapshot in n and in every ancestor of n up
\* to the root, C.manager is n, and the tables of every other manager are
\* unchanged.
C5_RegisterMirrorsUp ==
    [][ LET op == last_op' IN
        (op.op = "register" /\ op.outcome = "ok")
        => LET n == op.mgr
               c == The(op.cls)
               i == The(op.ident)
           IN  /\ \A k \in OnPathToRoot(n) :
                    /\ i \in DOMAIN _components'[k]
                    /\ _components'[k][i] = c
                    /\ i \in DOMAIN _module_data'[k]
                    /\ _module_data'[k][i] = SnapshotOf(c)
               /\ cls_manager'[c] = Some(n)
               /\ \A k \in Managers \ OnPathToRoot(n) :
                    /\ _components'[k] = _components[k]
                    /\ _module_data'[k] = _module_data[k]
                    /\ _identifiers'[k] = _identifiers[k]
      ]_vars

\* A class was registered on "a.b" while manager "c" holds a registration.
C5_Witness ==
    /\ last_op.op = "register"
    /\ last_op.outcome = "ok"
    /\ last_op.mgr = <<"a", "b">>
    /\ DOMAIN _components[<<"c">>] # {}
    /\ \A k \in {<<"a", "b">>, <<"a">>, ROOT} :
            The(last_op.ident) \in DOMAIN _components[k]

\* C6: deregister_component(C), called on C's owning manager for a class C
\* that is registered under identifier i, ends without raising and leaves i
\* absent from the component table and the module-data table of the owning
\* manager and of every ancestor up to the root.
C6_DeregisterRemoves ==
    [][ LET op == last_op' IN
        \A i \in ClassNames \cup ExplicitIds :
            (/\ op.op = "deregister"
             /\ cls_manager[The(op.cls)] = Some(op.mgr)
             /\ i \in DOMAIN _components[op.mgr]
             /\ _components[op.mgr][i] = The(op.cls))
            => /\ op.outcome = "ok"
               /\ \A k \in OnPathToRoot(op.mgr) :
                    /\ i \notin DOMAIN _components'[k]
                    /\ i \notin DOMAIN _module_data'[k]
      ]_vars


\* C22: every identifier in a manager's registry is also in the registry of
\* each of its ancestors and maps there to the same class, and the manager
\* that class refers back to is that manager or one of its descendants.
C22_RegistryMirrorsAncestors ==
    \A m \in Managers : \A identifier \in DOMAIN _components[m] :
        LET c == _components[m][identifier] IN
        /\ \A n \in Range(_recurse_parents(m)) :
                /\ identifier \in DOMAIN _components[n]
                /\ _components[n][identifier] = c
        /\ cls_manager[c] # None
        /\ m \in Range(_recurse_parents(The(cls_manager[c])))
\* ---------------------------------------------------------- codec claims

\* The managers on the path from n to the root whose own setting is set.
ConfiguredOnPath(n, attribute) == {k \in OnPathToRoot(n) : attribute[k] # None}

\* The value set on the configured manager nearest to n (every other
\* configured manager of the path lies on that manager's own path to the
\* root), the default when none is configured.
Inherited(n, attribute, default) ==
    IF ConfiguredOnPath(n, attribute) = {} THEN default
    ELSE LET nearest == CHOOSE k \in ConfiguredOnPath(n, attribute) :
                            \A j \in ConfiguredOnPath(n, attribute) : j \in OnPathToRoot(k)
         IN  The(attribute[nearest])

\* C9: in every state the sep and count accessors of every manager return
\* the value set on the nearest manager of its path to the root that has one,
\* "|" and True when none has (so a config() on an ancestor shows through a
\* descendant at once); an omitted config argument leaves every manager's
\* setting as it was, a None argument makes the manager inherit again, and
\* any other argument is what the manager's accessor returns afterwards.
C9_LiveInheritance ==
    /\ [] (\A n \in Managers :
            /\ sep(n) = Inherited(n, _sep, <<124>>)
            /\ count(n) = Inherited(n, _count, TRUE))
    /\ [][ \A m \in Managers, count_arg \in CountArgs, sep_arg \in SepArgs :
            config(m, count_arg, sep_arg) =>
                /\ count_arg = Omitted => _count' = _count
                /\ sep_arg = Omitted => _sep' = _sep
                /\ count_arg = Given(None) =>
                        count(m)' = IF m = ROOT THEN TRUE ELSE count(The(parent(m)))'
                /\ sep_arg = Given(None) =>
                        sep(m)' = IF m = ROOT THEN <<124>> ELSE sep(The(parent(m)))'
                /\ (~ count_arg.omitted /\ count_arg.value # None) =>
                        count(m)' = The(count_arg.value)
                /\ (~ sep_arg.omitted /\ sep_arg.value # None) =>
                        sep(m)' = The(sep_arg.value)
      ]_vars

\* "a.b" and the root have no setting of their own, "a" has sep "/" and
\* count False, and "a.b" reads both through its accessors.
C9_Witness ==
    /\ _sep[<<"a", "b">>] = None /\ _count[<<"a", "b">>] = None
    /\ _sep[ROOT] = None /\ _count[ROOT] = None
    /\ _sep[<<"a">>] = Some(<<47>>) /\ _count[<<"a">>] = Some(FALSE)
    /\ sep(<<"a", "b">>) = <<47>>
    /\ count(<<"a", "b">>) = FALSE

\* The identifier under which manager m's registry holds class c.
RegisteredIdentifier(m, c) ==
    CHOOSE i \in DOMAIN _components[m] : _components[m][i] = c

C10_RootResolvesDescendantIds ==
    (/\ made.outcome = "ok" /\ made.current
     /\ cls_manager[The(made.cls)] = Some(made.mgr))
    => Resolve(ROOT, made.id) = made.cls



\* The identifiers under which manager m's registry holds class c.
IdentifiersOf(m, c) == {i \in DOMAIN _components[m] : _components[m][i] = c}

\* C23: make_custom_id for a component of a registered class, called on the
\* manager that owns the class, returns a string that begins with an
\* identifier the class itself is registered under, and the manager resolves
\* the string to that class, also when another registered class has the same
\* class name.
C23_CustomIdNamesOwnClass ==
    [][ (/\ codec_ops' # codec_ops
         /\ made'.cls # None
         /\ cls_manager[The(made'.cls)] = Some(made'.mgr)
         /\ IdentifiersOf(made'.mgr, The(made'.cls)) # {})
        => /\ made'.outcome = "ok"
           /\ \E i \in IdentifiersOf(made'.mgr, The(made'.cls)) : IsPrefix(i, made'.id)
           /\ Resolve(made'.mgr, made'.id) = made'.cls ]_vars

\* The tasks that took a count character from manager m.
Counted(m) == {t \in TaskIds : tasks[t].mgr = m /\ tasks[t].count # None}

\* C24: make_custom_id calls that run as tasks on one counting manager each
\* read and advance the counter in one step: the count characters of the
\* calls made so far on a manager are the values the counter had on the way
\* to its present value, one per call, so no increment is lost and no two
\* of the calls have the same count character.
C24_TasksGetDistinctCounts ==
    \A m \in Managers :
        /\ {tasks[t].count : t \in Counted(m)} =
                {Some(_minimise_count((_counter[m] + NumCountChars - j) % NumCountChars)) :
                    j \in 1..Cardinality(Counted(m))}
        /\ \A t, u \in Counted(m) : t # u => tasks[t].count # tasks[u].count

\* Three calls on one manager are suspended at the await at the same time,
\* holding the count characters 24, 0 and 1.
C24_Witness ==
    /\ \A t \in 1..3 : tasks[t].pc = "awaiting" /\ tasks[t].mgr = tasks[1].mgr
    /\ tasks[1].count = Some(_minimise_count(MaxCounter))
    /\ tasks[2].count = Some(_minimise_count(0))
    /\ tasks[3].count = Some(_minimise_count(1))
\* Every manager's counter is one of 0 .. 24.
CounterInRange == \A m \in Managers : _counter[m] \in 0..MaxCounter

\* A make_custom_id call that returns (the steps that set made.current), on
\* a manager that counts: the count
\* character right after the identifier is that of the counter before the
\* call, and the counter moves on by one, from 24 to 0. On a manager that
\* does not count: the identifier is followed by no count character and the
\* counter stays.
CountCharIsCounter ==
    (codec_ops' # codec_ops /\ made'.current /\ made'.outcome = "ok")
    => LET m == made'.mgr
           params == made'.params
           registered == RegisteredIdentifier(m, CodecClass)
       IN  IF count(m)
           THEN /\ made'.id = Join(<<registered \o <<_counter[m]>> >> \o params, sep(m))
                /\ _counter'[m] = (_counter[m] + 1) % NumCountChars
                /\ \A n \in Managers \ {m} : _counter'[n] = _counter[n]
           ELSE /\ made'.id = Join(<<registered>> \o params, sep(m))
                /\ _counter' = _counter

RECURSIVE Increments(_, _)
\* The counter after n increments from k.
Increments(k, n) == IF n = 0 THEN k ELSE NextCounter(Increments(k, n - 1))

\* From any counter value, 25 consecutive increments give 25 different
\* count characters and the 26th gives the first again.
CountCharsCycle ==
    \A k \in 0..MaxCounter :
        /\ \A i, j \in 0..(NumCountChars - 1) :
                i # j => _minimise_count(Increments(k, i)) # _minimise_count(Increments(k, j))
        /\ _minimise_count(Increments(k, NumCountChars)) = _minimise_count(k)

\* C20: a manager's counter is in 0..24 in every reachable state; each
\* make_custom_id on a manager that counts uses the current counter as the
\* count character and then advances the counter by one, wrapping from 24 to
\* 0, so 25 consecutive calls use 25 different count characters and the
\* 26th reuses the first; on a manager whose count setting resolves to False
\* the counter stays and no count character is appended.
C20_CounterRotates ==
    /\ [](CounterInRange /\ CountCharsCycle)
    /\ [][CountCharIsCounter]_vars

\* A call on a counting manager whose counter was 24: the id carries the
\* character 24 and the counter is back at 0.
C20_Witness ==
    /\ made.outcome = "ok" /\ made.current
    /\ count(made.mgr)
    /\ made.id[Len(RegisteredIdentifier(made.mgr, CodecClass)) + 1] = MaxCounter
    /\ _counter[made.mgr] = 0
    /\ codec_ops = 1

=============================================================================
